---------------------------- MODULE Spec2Model ----------------------------
(***************************************************************************)
(* Reviewer statistics of Rietveld (codereview/views.py): the daily        *)
(* aggregator (update_daily_stats and the generator                        *)
(* yield_people_issue_to_update that feeds it), the merge of a packet into *)
(* an AccountStatsDay, the leaderboard query and quarter_to_months.        *)
(*                                                                         *)
(* A datetime is a record [day, sec]: .date() is its day field and         *)
(* (a - b).total_seconds() is (a.day - b.day) * 86400 + a.sec - b.sec.     *)
(* An AccountStatsDay is a record of four parallel sequences; the store of *)
(* AccountStatsDay entities is a function whose domain is the set of keys  *)
(* <<account, day>> that exist.                                            *)
(***************************************************************************)
EXTENDS Integers, Sequences, FiniteSets, TLC

VARIABLES
    stats,      \* the AccountStatsDay entities: <<account, day>> -> record
    packet,     \* the packet the generator yielded, NoPacket once handled
    branch,     \* the branch the last packet took in update_daily_stats
    logged,     \* what logging.error was last called with, or NoLog
    when,       \* the period key a caller passes, a sequence of characters
    today,      \* datetime.datetime.utcnow().date(), as [year, month]
    months,     \* what quarter_to_months returned, NotCalled before the call
    entities,   \* the stored AccountStatsDay and AccountStatsMulti summaries
    limit,      \* the limit a leaderboard view passes to leaderboard_impl
    data,       \* what leaderboard_impl returned, NotCalled before the call
    view,       \* the response of the leaderboard view: status, tops, shame
    issue_db,   \* the models.Issue entities: issue id -> record
    message_db, \* the models.Message entities, in the order of their dates
    runs,       \* the invocations of update_daily_stats: number -> record
    args,       \* the arguments of a call of one of the pure functions
    ret,        \* what the call returned, NotReturned before it
    queue,      \* the requests the update-stats queue holds
    handling,   \* the request task_update_stats is handling
    history,    \* the responses of task_update_stats, oldest first
    account_db, \* the users with an Account entity
    multi_db,   \* the AccountStatsMulti entities: key -> entity
    job,        \* the invocation of update_rolling_stats or _monthly_stats
    utcnow,     \* datetime.datetime.utcnow().date(): the day of January
    modified_db \* AccountStatsDay.modified: key -> day of the last put

mergeVars == <<stats, packet, branch, logged>>

quarterVars == <<when, today, months>>

boardVars == <<entities, limit, data, view>>

dailyVars == <<issue_db, message_db, runs>>

callVars == <<args, ret>>

chainVars == <<queue, handling, history>>

multiVars == <<account_db, multi_db, job>>

\* The later variables a put of AccountStatsDay entities leaves alone.
unstampedVars == <<callVars, chainVars, multiVars, utcnow>>

laterVars == <<unstampedVars, modified_db>>

vars == <<stats, packet, branch, logged, when, today, months,
          entities, limit, data, view, issue_db, message_db, runs,
          args, ret, queue, handling, history, account_db, multi_db, job,
          utcnow, modified_db>>

-----------------------------------------------------------------------------
(* Bounds of the packet-level specification.                               *)

MaxLatency == 1

MaxLgtms == 1

MergeIssues == {1, 2}

MergeKey == <<"r@x", 1>>

-----------------------------------------------------------------------------
(* models.AccountStatsBase review types, as views.py names them.           *)

OUTGOING == "OUTGOING"

NORMAL == "NORMAL"

DRIVE_BY == "DRIVE_BY"

NOT_REQUESTED == "NOT_REQUESTED"

IGNORED == "IGNORED"

ReviewTypes == {OUTGOING, NORMAL, DRIVE_BY, NOT_REQUESTED, IGNORED}

\* models.AccountStatsDay(id=day, parent=account_key): a new, empty entity.
NewStatsDay == [issues |-> <<>>, latencies |-> <<>>, lgtms |-> <<>>,
                review_types |-> <<>>]

NoPacket == [issue_id |-> 0, latency |-> -1, lgtms |-> 0, review_type |-> ""]

NoLog == [old |-> -1, new |-> -1, i |-> 0]

\* list.index(x): the first position holding x.
ListIndex(seq, x) ==
    CHOOSE i \in 1..Len(seq) :
        /\ seq[i] = x
        /\ \A j \in 1..(i - 1) : seq[j] # x

InList(seq, x) == \E i \in 1..Len(seq) : seq[i] = x

-----------------------------------------------------------------------------
(* update_daily_stats, the body of its loop for one packet.                *)

\* MergeBranch without the two "never downgrade" tests.
MergeBranchDowngrading(item, issue_id, latency, lgtms, review_type) ==
    IF InList(item.issues, issue_id)
    THEN LET i == ListIndex(item.issues, issue_id) IN
         IF /\ item.latencies[i] = latency
            /\ item.lgtms[i] = lgtms
            /\ item.review_types[i] = review_type
         THEN "same"
         ELSE "overwrite"
    ELSE "new"

\* MergeBranch with a fourth "continue" after the latency mismatch is found.
MergeBranchKeepingOld(item, issue_id, latency, lgtms, review_type) ==
    IF InList(item.issues, issue_id)
    THEN LET i == ListIndex(item.issues, issue_id) IN
         IF /\ item.latencies[i] = latency
            /\ item.lgtms[i] = lgtms
            /\ item.review_types[i] = review_type
         THEN "same"
         ELSE IF item.lgtms[i] > lgtms
         THEN "lower_lgtms"
         ELSE IF item.latencies[i] >= 0 /\ latency = -1
         THEN "known_latency"
         ELSE IF /\ item.latencies[i] >= 0
                 /\ latency >= 0
                 /\ item.latencies[i] # latency
         THEN "mismatch"
         ELSE "overwrite"
    ELSE "new"

\* The branch of the loop body the packet takes: "new" appends, "same",
\* "lower_lgtms" and "known_latency" are the three "continue" statements,
\* "overwrite" assigns the slot.
MergeBranch(item, issue_id, latency, lgtms, review_type) ==
    IF InList(item.issues, issue_id)
    THEN LET i == ListIndex(item.issues, issue_id) IN
         IF /\ item.latencies[i] = latency
            /\ item.lgtms[i] = lgtms
            /\ item.review_types[i] = review_type
         THEN "same"
         ELSE IF item.lgtms[i] > lgtms
         THEN "lower_lgtms"
         ELSE IF item.latencies[i] >= 0 /\ latency = -1
         THEN "known_latency"
         ELSE "overwrite"
    ELSE "new"

\* The test that guards logging.error: both latencies known, and different.
LatencyMismatch(item, i, latency) ==
    /\ item.latencies[i] >= 0
    /\ latency >= 0
    /\ item.latencies[i] # latency

\* item.issues.append(issue_id) and the three appends that follow it.
AppendSlot(item, issue_id, latency, lgtms, review_type) ==
    [issues |-> Append(item.issues, issue_id),
     latencies |-> Append(item.latencies, latency),
     lgtms |-> Append(item.lgtms, lgtms),
     review_types |-> Append(item.review_types, review_type)]

\* MergeItem appending to the four lists whenever the packet is stored.
MergeItemAlwaysAppending(item, issue_id, latency, lgtms, review_type) ==
    LET b == MergeBranch(item, issue_id, latency, lgtms, review_type) IN
    IF b \in {"new", "overwrite"}
    THEN AppendSlot(item, issue_id, latency, lgtms, review_type)
    ELSE item

\* The entity after the packet: unchanged on a "continue", overwritten in
\* place for an existing issue, appended to for a new one.
MergeItem(item, issue_id, latency, lgtms, review_type) ==
    LET b == MergeBranch(item, issue_id, latency, lgtms, review_type) IN
    IF b = "new"
    THEN AppendSlot(item, issue_id, latency, lgtms, review_type)
    ELSE IF b = "overwrite"
    THEN LET i == ListIndex(item.issues, issue_id) IN
         [item EXCEPT !.latencies[i] = latency,
                      !.lgtms[i] = lgtms,
                      !.review_types[i] = review_type]
    ELSE item

\* Whether the packet reaches the code after the "continue" statements, so
\* that a freshly fetched item is appended to items and put.
MergeStores(item, issue_id, latency, lgtms, review_type) ==
    MergeBranch(item, issue_id, latency, lgtms, review_type)
        \in {"new", "overwrite"}

\* What logging.error is called with for the packet, NoLog when it is not.
MergeLog(item, issue_id, latency, lgtms, review_type) ==
    IF MergeBranch(item, issue_id, latency, lgtms, review_type) = "overwrite"
    THEN LET i == ListIndex(item.issues, issue_id) IN
         IF LatencyMismatch(item, i, latency)
         THEN [old |-> item.latencies[i], new |-> latency, i |-> i]
         ELSE NoLog
    ELSE NoLog

\* AccountStatsDay.get_by_id(day, parent=account_key), or a new entity.
GetOrNew(store, key) ==
    IF key \in DOMAIN store THEN store[key] ELSE NewStatsDay

\* put of one entity.
Put(store, key, item) ==
    [k \in DOMAIN store \cup {key} |-> IF k = key THEN item ELSE store[k]]

-----------------------------------------------------------------------------
(* Packet-level specification: update_daily_stats run on a generator that  *)
(* yields one packet.  The packets are the triples process_issue can       *)
(* return with a review type: (-1, lgtms, OUTGOING), (seconds, lgtms,      *)
(* NORMAL | DRIVE_BY | NOT_REQUESTED) and (-1, 0, IGNORED).                *)

MergePackets ==
    [issue_id : MergeIssues, latency : {-1}, lgtms : 0..MaxLgtms,
     review_type : {OUTGOING}]
    \cup [issue_id : MergeIssues, latency : 0..MaxLatency, lgtms : 0..MaxLgtms,
          review_type : {NORMAL, DRIVE_BY, NOT_REQUESTED}]
    \cup [issue_id : MergeIssues, latency : {-1}, lgtms : {0},
          review_type : {IGNORED}]

\* The variables of the other specifications, at rest.
QuarterIdle ==
    /\ when = <<>>
    /\ today = [year |-> 0, month |-> 0]
    /\ months = [called |-> FALSE, none |-> FALSE, out |-> <<>>]

BoardIdle ==
    /\ entities = {}
    /\ limit = 0
    /\ data = [called |-> FALSE, none |-> FALSE, out |-> <<>>]
    /\ view = [status |-> 0, tops |-> <<>>, shame |-> <<>>]

\* The invocations of update_daily_stats the task queue can have delivered.
Invocations == {1, 2}

\* An invocation that is not running: its position, the day it was given,
\* the packets its generator has still to yield, the local lists items and
\* futures, the status it returned, the invocations that had returned when
\* it began and the entities stored when it returned.
IdleRun ==
    [pc |-> "idle", day |-> 0, todo |-> <<>>, items |-> <<>>,
     futures |-> <<>>, result |-> 0, after |-> {}, out |-> <<>>]

DailyIdle ==
    /\ issue_db = <<>>
    /\ message_db = <<>>
    /\ runs = [r \in Invocations |-> IdleRun]

\* No call of a pure function was made.
NotReturned == [called |-> FALSE, out |-> <<>>]

CallIdle ==
    /\ args = <<>>
    /\ ret = NotReturned

\* task_update_stats is not handling a request.
NotHandling ==
    [pc |-> "idle", request |-> <<>>, tasks |-> <<>>, task |-> <<>>]

\* Neither update_rolling_stats nor update_monthly_stats is running.
IdleJob ==
    [pc |-> "idle", kind |-> "", day |-> 0, today |-> 0, start_cursor |-> 0,
     cursor |-> 0, passes |-> 0, accounts |-> 0, items |-> <<>>,
     to_delete |-> <<>>, futures |-> <<>>, seen |-> {}, result |-> 0]

ChainIdle ==
    /\ queue = <<>>
    /\ handling = NotHandling
    /\ history = <<>>

MultiIdle ==
    /\ account_db = {}
    /\ multi_db = <<>>
    /\ job = IdleJob

ClockIdle ==
    /\ utcnow = 1
    /\ modified_db = <<>>

LaterIdle == CallIdle /\ ChainIdle /\ MultiIdle /\ ClockIdle

MergeIdle ==
    /\ stats = <<>>
    /\ packet = NoPacket
    /\ branch = "none"
    /\ logged = NoLog

MergeInit ==
    /\ MergeIdle
    /\ QuarterIdle
    /\ BoardIdle
    /\ DailyIdle
    /\ LaterIdle

\* "for packet in yield_people_issue_to_update(...)": the next packet.
YieldPacket(p) ==
    /\ packet = NoPacket
    /\ packet' = p
    /\ branch' = "none"
    /\ logged' = NoLog
    /\ UNCHANGED <<stats, quarterVars, boardVars, dailyVars, laterVars>>

\* The loop body on the packet, and the put of the item it stored.
UpdateOnePacket ==
    /\ packet # NoPacket
    /\ LET p == packet
           item == GetOrNew(stats, MergeKey)
           new == MergeItem(item, p.issue_id, p.latency, p.lgtms,
                            p.review_type)
       IN  /\ branch' = MergeBranch(item, p.issue_id, p.latency, p.lgtms,
                                    p.review_type)
           /\ logged' = MergeLog(item, p.issue_id, p.latency, p.lgtms,
                                 p.review_type)
           /\ stats' = IF MergeStores(item, p.issue_id, p.latency, p.lgtms,
                                      p.review_type)
                       THEN Put(stats, MergeKey, new)
                       ELSE stats
    /\ packet' = NoPacket
    /\ UNCHANGED <<quarterVars, boardVars, dailyVars, laterVars>>

MergeNext ==
    \/ \E p \in MergePackets : YieldPacket(p)
    \/ UpdateOnePacket

SpecMerge == MergeInit /\ [][MergeNext]_vars

-----------------------------------------------------------------------------
(* Claims about the merge of one packet, under SpecMerge.                  *)

\* The slot of issue_id in the entity under key, as <<latency, lgtms, type>>.
SlotOf(store, key, issue_id) ==
    LET item == store[key]
        i == ListIndex(item.issues, issue_id)
    IN  <<item.latencies[i], item.lgtms[i], item.review_types[i]>>

HasSlot(store, key, issue_id) ==
    key \in DOMAIN store /\ InList(store[key].issues, issue_id)

\* C1: over any sequence of packets merged one after another, a slot that
\* exists keeps existing, its lgtm count never decreases and its latency,
\* once known (>= 0), never becomes the unknown latency -1.
C1_MergeMonotone ==
    [][\A key \in DOMAIN stats : \A id \in MergeIssues :
          HasSlot(stats, key, id) =>
             /\ HasSlot(stats', key, id)
             /\ SlotOf(stats', key, id)[2] >= SlotOf(stats, key, id)[2]
             /\ (SlotOf(stats, key, id)[1] >= 0
                    => SlotOf(stats', key, id)[1] # -1)]_vars

\* C1 witness: packets that would lower a slot were merged and dropped: the
\* last one carried the unknown latency onto a known one, and the slot it
\* met holds a known latency and a positive lgtm count.
C1_Witness ==
    /\ branch = "known_latency"
    /\ \E id \in MergeIssues :
          /\ HasSlot(stats, MergeKey, id)
          /\ SlotOf(stats, MergeKey, id)[1] >= 0
          /\ SlotOf(stats, MergeKey, id)[2] > 0

\* A packet p meets a stored slot of its issue whose latency is known, its
\* own latency is known, and the two differ.
MeetsMismatch(p) ==
    /\ HasSlot(stats, MergeKey, p.issue_id)
    /\ LatencyMismatch(stats[MergeKey],
                       ListIndex(stats[MergeKey].issues, p.issue_id),
                       p.latency)

C5_ParallelLists ==
    \A key \in DOMAIN stats :
        LET item == stats[key] IN
        /\ Len(item.latencies) = Len(item.issues)
        /\ Len(item.lgtms) = Len(item.issues)
        /\ Len(item.review_types) = Len(item.issues)
        /\ \A i, j \in 1..Len(item.issues) :
              item.issues[i] = item.issues[j] => i = j

\* C5 witness: an entity holding two issues whose last packet overwrote a
\* slot in place.
C5_Witness ==
    /\ MergeKey \in DOMAIN stats
    /\ Len(stats[MergeKey].issues) = 2
    /\ branch = "overwrite"

-----------------------------------------------------------------------------
(* quarter_to_months.  A key is a sequence of one-character strings.       *)

Digits == {"0", "1", "2", "3", "4", "5", "6", "7", "8", "9"}

DigitChars == <<"0", "1", "2", "3", "4", "5", "6", "7", "8", "9">>

\* int(c) of one digit character.
DigitValue(c) == (CHOOSE i \in 1..10 : DigitChars[i] = c) - 1

\* str.isdigit(): not empty, and digits only.
IsDigit(str) == Len(str) > 0 /\ \A i \in 1..Len(str) : str[i] \in Digits

\* int(str) of a string of digits.
RECURSIVE ParseInt(_)
ParseInt(str) ==
    IF Len(str) = 0 THEN 0
    ELSE 10 * ParseInt(SubSeq(str, 1, Len(str) - 1)) + DigitValue(str[Len(str)])

\* "%d" % n, for n >= 0.
RECURSIVE FormatD(_)
FormatD(n) ==
    IF n < 10 THEN <<DigitChars[n + 1]>>
    ELSE Append(FormatD(n \div 10), DigitChars[(n % 10) + 1])

\* "%0<width>d" % n: zeros to the left, up to the width.
RECURSIVE ZeroPad(_, _)
ZeroPad(str, width) ==
    IF Len(str) >= width THEN str ELSE ZeroPad(<<"0">> \o str, width)

Format02d(n) == ZeroPad(FormatD(n), 2)

Format04d(n) == ZeroPad(FormatD(n), 4)

\* re.match(r"^(\d\d\d\d-)[qQ]([1-4])$", when), on a key of one line.
QuarterMatch(str) ==
    /\ Len(str) = 7
    /\ \A i \in 1..4 : str[i] \in Digits
    /\ str[5] = "-"
    /\ str[6] \in {"q", "Q"}
    /\ str[7] \in {"1", "2", "3", "4"}

\* ["%04d-%02d" % (year, i + 1) for i in range(n)]
YearMonths(year, n) ==
    [i \in 1..n |-> Format04d(year) \o <<"-">> \o Format02d(i)]

NotCalled == [called |-> FALSE, none |-> FALSE, out |-> <<>>]

ReturnNone == [called |-> TRUE, none |-> TRUE, out |-> <<>>]

Return(list) == [called |-> TRUE, none |-> FALSE, out |-> list]

\* The oldest year quarter_to_months accepts.
FirstYear == 2008

\* quarter_to_months with the quarter's first month counted from 0.
quarter_to_months_base0(key, now) ==
    IF IsDigit(key) /\ FirstYear <= ParseInt(key) /\ ParseInt(key) <= now.year
    THEN LET year == ParseInt(key) IN
         IF year = now.year
         THEN Return(YearMonths(year, now.month))
         ELSE Return(YearMonths(year, 12))
    ELSE IF ~QuarterMatch(key)
    THEN ReturnNone
    ELSE LET prefix == SubSeq(key, 1, 5)
             base == (DigitValue(key[7]) - 1) * 3
         IN  Return([i \in 1..3 |-> prefix \o Format02d(base + i - 1)])

quarter_to_months(key, now) ==
    IF IsDigit(key) /\ FirstYear <= ParseInt(key) /\ ParseInt(key) <= now.year
    THEN LET year == ParseInt(key) IN
         IF year = now.year
         THEN Return(YearMonths(year, now.month))
         ELSE Return(YearMonths(year, 12))
    ELSE IF ~QuarterMatch(key)
    THEN ReturnNone
    ELSE LET prefix == SubSeq(key, 1, 5)
             base == (DigitValue(key[7]) - 1) * 3 + 1
         IN  Return([i \in 1..3 |-> prefix \o Format02d(base + i - 1)])

-----------------------------------------------------------------------------
(* Specification of quarter_to_months: a key from a bounded set, one call. *)

\* The most recent year of the keys and of the clock.
LastYear == 2010

YearKeys ==
    {Format04d(y) : y \in (FirstYear - 1)..(LastYear + 1)}
    \cup {<<"2", "0", "0", "x">>, <<"0", "2", "0", "0", "9">>, <<"9">>, <<>>}

KeyTails ==
    {<<>>, <<"-">>, <<"-", "Q">>, <<"Q", "1">>, <<"-", "0", "1">>,
     <<"-", "Q", "1", "2">>, <<"-", "Q", "x">>, <<"-", "R", "1">>}
    \cup {<<"-", q, n>> : q \in {"q", "Q"},
                         n \in {"0", "1", "2", "3", "4", "5"}}

QuarterKeys == {y \o t : y \in YearKeys, t \in KeyTails}

Todays == [year : FirstYear..LastYear, month : {1, 6, 12}]

QuarterInit ==
    /\ MergeIdle
    /\ BoardIdle
    /\ DailyIdle
    /\ LaterIdle
    /\ when \in QuarterKeys
    /\ today \in Todays
    /\ months = NotCalled

CallQuarterToMonths ==
    /\ ~months.called
    /\ months' = quarter_to_months(when, today)
    /\ UNCHANGED <<when, today, mergeVars, boardVars, dailyVars, laterVars>>

QuarterNext == CallQuarterToMonths

SpecQuarter == QuarterInit /\ [][QuarterNext]_vars

\* The two characters of month m in a key.
MonthNames ==
    <<<<"0", "1">>, <<"0", "2">>, <<"0", "3">>, <<"0", "4">>, <<"0", "5">>,
      <<"0", "6">>, <<"0", "7">>, <<"0", "8">>, <<"0", "9">>, <<"1", "0">>,
      <<"1", "1">>, <<"1", "2">>>>

\* The key is YYYY-QN or YYYY-qN with N in 1..4, and n is N.
IsQuarterKey(key, n) ==
    /\ Len(key) = 7
    /\ \A i \in 1..4 : key[i] \in Digits
    /\ key[5] = "-"
    /\ key[6] \in {"q", "Q"}
    /\ key[7] = <<"1", "2", "3", "4">>[n]

\* The key is the decimal numeral of a year quarter_to_months accepts.
IsValidYearKey(key, now) ==
    /\ IsDigit(key)
    /\ \E y \in FirstYear..now.year : ParseInt(key) = y

\* C10: a key YYYY-QN (N in 1..4, q or Q) gives exactly the month keys
\* YYYY-(3N-2), YYYY-(3N-1), YYYY-(3N), in that order; a key that is neither
\* such a quarter nor a valid year gives None.
C10_QuarterToMonths ==
    months.called =>
        /\ \A n \in 1..4 :
              IsQuarterKey(when, n) =>
                 /\ ~months.none
                 /\ months.out =
                       <<SubSeq(when, 1, 4) \o <<"-">> \o MonthNames[3 * n - 2],
                         SubSeq(when, 1, 4) \o <<"-">> \o MonthNames[3 * n - 1],
                         SubSeq(when, 1, 4) \o <<"-">> \o MonthNames[3 * n]>>
        /\ ((~\E n \in 1..4 : IsQuarterKey(when, n))
               /\ ~IsValidYearKey(when, today)) => months.none

\* C10 witness: the second quarter of a year was expanded to its months
\* 04, 05 and 06.
C10_Witness ==
    /\ months.called
    /\ IsQuarterKey(when, 2)
    /\ months.out[1][6] = "0" /\ months.out[1][7] = "4"
    /\ months.out[3][7] = "6"

-----------------------------------------------------------------------------
(* The leaderboard.  A stored summary is a record [cls, user, name, score,  *)
(* issues, latencies, lgtms, review_types]: cls is "Day" for an             *)
(* AccountStatsDay and "Multi" for an AccountStatsMulti, name is the        *)
(* entity's id (its period key) and user the account it belongs to.  A      *)
(* score is an integer; NoScore stands for None, which the datastore        *)
(* orders before every number.                                              *)

NoScore == -1

\* models.AccountStatsBase.NULL_SCORE, the score of an account with nothing
\* to rank; larger than every real score.
NULL_SCORE == 1000

\* str.lower() on the characters of a key.
LowerChar(c) ==
    IF c = "Q" THEN "q" ELSE IF c = "R" THEN "r" ELSE IF c = "X" THEN "x" ELSE c

Lower(str) == [i \in 1..Len(str) |-> LowerChar(str[i])]

\* str.count("-")
RECURSIVE CountDash(_)
CountDash(str) ==
    IF Len(str) = 0 THEN 0
    ELSE CountDash(Tail(str)) + (IF Head(str) = "-" THEN 1 ELSE 0)

\* models.verify_account_statistics_name: the key is the rolling key "30",
\* a month YYYY-MM or a day YYYY-MM-DD.
verify_account_statistics_name(name) ==
    \/ name = <<"3", "0">>
    \/ /\ Len(name) = 7
       /\ IsDigit(SubSeq(name, 1, 4)) /\ name[5] = "-"
       /\ IsDigit(SubSeq(name, 6, 7))
       /\ ParseInt(SubSeq(name, 6, 7)) \in 1..12
    \/ /\ Len(name) = 10
       /\ IsDigit(SubSeq(name, 1, 4)) /\ name[5] = "-"
       /\ IsDigit(SubSeq(name, 6, 7)) /\ name[8] = "-"
       /\ IsDigit(SubSeq(name, 9, 10))
       /\ ParseInt(SubSeq(name, 6, 7)) \in 1..12
       /\ ParseInt(SubSeq(name, 9, 10)) \in 1..31

\* models.compute_score: NULL_SCORE without a known latency, else the sum of
\* the known latencies (lower is better).
RECURSIVE SumKnown(_)
SumKnown(latencies) ==
    IF Len(latencies) = 0 THEN 0
    ELSE SumKnown(Tail(latencies))
           + (IF Head(latencies) >= 0 THEN Head(latencies) ELSE 0)

compute_score(s) ==
    IF \A i \in 1..Len(s.latencies) : s.latencies[i] < 0
    THEN NULL_SCORE
    ELSE SumKnown(s.latencies)

\* One item added to out: every issue id out does not hold yet is appended
\* with its latency, lgtm count and review type.
RECURSIVE AddItem(_, _, _)
AddItem(out, item, i) ==
    IF i > Len(item.issues) THEN out
    ELSE AddItem(IF InList(out.issues, item.issues[i])
                 THEN out
                 ELSE [out EXCEPT
                         !.issues = Append(@, item.issues[i]),
                         !.latencies = Append(@, item.latencies[i]),
                         !.lgtms = Append(@, item.lgtms[i]),
                         !.review_types = Append(@, item.review_types[i])],
                 item, i + 1)

\* models.sum_account_statistics(out, items): out's four lists become the
\* union by issue id of the items' lists, and out's score is recomputed.
RECURSIVE SumItems(_, _)
SumItems(out, items) ==
    IF Len(items) = 0 THEN out
    ELSE SumItems(AddItem(out, Head(items), 1), Tail(items))

sum_account_statistics(out, items) ==
    LET summed == SumItems([out EXCEPT !.issues = <<>>, !.latencies = <<>>,
                                       !.lgtms = <<>>, !.review_types = <<>>],
                           items)
    IN  [summed EXCEPT !.score = compute_score(summed)]

\* The accounts and the entity names of the model, each in key order.
BoardUsers == <<"a@x", "b@x">>

BoardNames ==
    <<<<"2", "0", "1", "0", "-", "0", "1">>,
      <<"2", "0", "1", "0", "-", "0", "1", "-", "0", "2">>,
      <<"2", "0", "1", "0", "-", "0", "2">>,
      <<"3", "0">>>>

Rank(seq, x) == CHOOSE i \in 1..Len(seq) : seq[i] = x

\* The order of a query ".order(cls.score)": by score, then by key (the
\* account, then the entity's name).
QueryBefore(e, f) ==
    \/ e.score < f.score
    \/ /\ e.score = f.score
       /\ \/ Rank(BoardUsers, e.user) < Rank(BoardUsers, f.user)
          \/ /\ e.user = f.user
             /\ Rank(BoardNames, e.name) < Rank(BoardNames, f.name)

\* The entities of a set in query order.
RECURSIVE QueryOrder(_)
QueryOrder(set) ==
    IF set = {} THEN <<>>
    ELSE LET first == CHOOSE e \in set :
                          \A f \in set \ {e} : QueryBefore(e, f)
         IN  <<first>> \o QueryOrder(set \ {first})

\* fetch() that forgets its limit.
FetchAll(seq, n) == seq

\* fetch(limit): the first limit results.
Fetch(seq, n) == SubSeq(seq, 1, IF Len(seq) < n THEN Len(seq) ELSE n)

\* cls.query(cls.name.IN(names)).order(cls.score).fetch(limit)
QueryNames(store, cls, names, n) ==
    Fetch(QueryOrder({e \in store : e.cls = cls /\ InList(names, e.name)}), n)

\* The users of the results, in the order they first appear.
RECURSIVE UsersOf(_)
UsersOf(results) ==
    IF Len(results) = 0 THEN <<>>
    ELSE LET rest == UsersOf(SubSeq(results, 1, Len(results) - 1))
             u == results[Len(results)].user
         IN  IF InList(rest, u) THEN rest ELSE Append(rest, u)

\* values.sort(key=lambda x: x.name) of one user's results.
RECURSIVE NameOrder(_)
NameOrder(set) ==
    IF set = {} THEN <<>>
    ELSE LET first == CHOOSE e \in set :
                 \A f \in set \ {e} :
                     Rank(BoardNames, e.name) < Rank(BoardNames, f.name)
         IN  <<first>> \o NameOrder(set \ {first})

\* models.AccountStatsMulti(id=when, parent=...): a new, empty summary.
NewMulti(user, name) ==
    [cls |-> "Multi", user |-> user, name |-> name, score |-> NULL_SCORE,
     issues |-> <<>>, latencies |-> <<>>, lgtms |-> <<>>,
     review_types |-> <<>>]

\* The merged summary of one user of the results.
MergedTop(results, user, name) ==
    sum_account_statistics(
        NewMulti(user, name),
        NameOrder({results[i] : i \in {j \in 1..Len(results) :
                                          results[j].user = user}}))

\* sorted(tops.values(), key=lambda x: x.score): a stable sort.
RECURSIVE SortedByScore(_)
SortedByScore(seq) ==
    IF Len(seq) = 0 THEN <<>>
    ELSE LET i == CHOOSE i \in 1..Len(seq) :
                      /\ \A j \in 1..Len(seq) : seq[i].score <= seq[j].score
                      /\ \A j \in 1..(i - 1) : seq[j].score > seq[i].score
         IN  <<seq[i]>> \o SortedByScore(SubSeq(seq, 1, i - 1)
                                          \o SubSeq(seq, i + 1, Len(seq)))

\* The final filter left out: every entry is returned.
WithScoreKeepingNone(seq) == seq

\* [t for t in tops if t.score is not None]
RECURSIVE WithScore(_)
WithScore(seq) ==
    IF Len(seq) = 0 THEN <<>>
    ELSE (IF Head(seq).score # NoScore THEN <<Head(seq)>> ELSE <<>>)
            \o WithScore(Tail(seq))

leaderboard_impl(store, key, n, now) ==
    LET lower == Lower(key)
        valid == verify_account_statistics_name(lower)
        expanded == IF valid THEN ReturnNone ELSE quarter_to_months(lower, now)
        cls == IF CountDash(lower) = 2 THEN "Day" ELSE "Multi"
    IN  IF ~valid /\ (expanded.none \/ Len(expanded.out) = 0)
        THEN ReturnNone
        ELSE IF ~valid
        THEN LET results == QueryNames(store, cls, expanded.out, n)
                 users == UsersOf(results)
                 tops == [i \in 1..Len(users) |->
                             MergedTop(results, users[i], lower)]
             IN  Return(WithScore(SortedByScore(tops)))
        ELSE Return(WithScore(QueryNames(store, cls, <<lower>>, n)))

\* The split of the leaderboard view: shame holds the entries whose score is
\* NULL_SCORE, tops the others.
RECURSIVE Select(_, _)
Select(seq, null) ==
    IF Len(seq) = 0 THEN <<>>
    ELSE (IF (Head(seq).score = NULL_SCORE) = null THEN <<Head(seq)>> ELSE <<>>)
            \o Select(Tail(seq), null)

\* The leaderboard view, were it to render whatever leaderboard_impl
\* returns.
leaderboard_rendering_none(result) ==
    [status |-> 200, tops |-> Select(result.out, FALSE),
     shame |-> Select(result.out, TRUE)]

\* The leaderboard view: HttpResponseNotFound for None, else the page with
\* tops and shame.
leaderboard(result) ==
    IF result.none
    THEN [status |-> 404, tops |-> <<>>, shame |-> <<>>]
    ELSE [status |-> 200, tops |-> Select(result.out, FALSE),
          shame |-> Select(result.out, TRUE)]

\* The leaderboard_json view: the status 404 for None, else the list of the
\* entries as dictionaries.
leaderboard_json(result) ==
    IF result.none
    THEN [status |-> 404, body |-> <<>>]
    ELSE [status |-> 200, body |-> result.out]

-----------------------------------------------------------------------------
(* Specification of the leaderboard: a bounded store of summaries, a key   *)
(* and a limit, one request.                                               *)

\* The most summaries in the store, and the largest limit of a request.
MaxEntities == 3

MaxLimit == 2

StoredScores == {NoScore, 1, 2, NULL_SCORE}

\* The summary stored for a user under a name with a score: an issue every
\* summary holds (1, never answered) and one of its own, whose latency is
\* the score when the score is a real one.
Entity(user, name, score) ==
    [cls |-> IF CountDash(name) = 2 THEN "Day" ELSE "Multi",
     user |-> user, name |-> name, score |-> score,
     issues |-> <<1, 10 + Rank(BoardNames, name)>>,
     latencies |-> <<-1, IF score \in {NoScore, NULL_SCORE} THEN -1 ELSE score>>,
     lgtms |-> <<0, 1>>,
     review_types |-> <<IGNORED,
                        IF score \in {NoScore, NULL_SCORE}
                        THEN IGNORED ELSE NORMAL>>]

BoardSlots ==
    {<<BoardUsers[u], BoardNames[n]>> :
        u \in 1..Len(BoardUsers), n \in 1..Len(BoardNames)}

BoardKeys ==
    {<<"2", "0", "1", "0", "-", "Q", "1">>,
     <<"2", "0", "1", "0", "-", "0", "1">>,
     <<"2", "0", "1", "0", "-", "0", "1", "-", "0", "2">>,
     <<"3", "0">>,
     <<"2", "0", "1", "0">>,
     <<"2", "0", "1", "0", "-", "Q", "5">>}

BoardInit ==
    /\ MergeIdle
    /\ DailyIdle
    /\ LaterIdle
    /\ months = NotCalled
    /\ today = [year |-> LastYear, month |-> 6]
    /\ when \in BoardKeys
    /\ limit \in 1..MaxLimit
    /\ \E slots \in {k \in SUBSET BoardSlots : Cardinality(k) <= MaxEntities} :
          \E score \in [slots -> StoredScores] :
              entities = {Entity(k[1], k[2], score[k]) : k \in slots}
    /\ data = NotCalled
    /\ view = [status |-> 0, tops |-> <<>>, shame |-> <<>>]

\* The leaderboard view: leaderboard_impl, then the split into tops and
\* shame.
Leaderboard ==
    /\ ~data.called
    /\ data' = leaderboard_impl(entities, when, limit, today)
    /\ view' = leaderboard(leaderboard_impl(entities, when, limit, today))
    /\ UNCHANGED <<entities, limit, when, today, months, mergeVars,
                   dailyVars, laterVars>>

BoardNext == Leaderboard

SpecBoard == BoardInit /\ [][BoardNext]_vars

-----------------------------------------------------------------------------
(* Claims about the leaderboard, under SpecBoard.                          *)

\* The three month keys of the quarter key YYYY-QN.
MonthsOfQuarter(key) ==
    LET n == CHOOSE n \in 1..4 : IsQuarterKey(key, n) IN
    {SubSeq(key, 1, 4) \o <<"-">> \o MonthNames[m] :
        m \in (3 * n - 2)..(3 * n)}

IsQuarter(key) == \E n \in 1..4 : IsQuarterKey(key, n)

\* The stored monthly summaries of a user in the quarter of the key.
StoredMonths(user, key) ==
    {e \in entities : /\ e.cls = "Multi"
                      /\ e.user = user
                      /\ e.name \in MonthsOfQuarter(key)}

\* C7: for a quarter key, every entry leaderboard_impl returns is merged
\* from all the monthly summaries its account has in the quarter: each
\* issue of each of them is in the entry, whatever the limit.
C7_QuarterMergesEveryMonth ==
    (data.called /\ ~data.none /\ IsQuarter(when)) =>
        \A i \in 1..Len(data.out) :
            \A e \in StoredMonths(data.out[i].user, when) :
                \A k \in 1..Len(e.issues) :
                    InList(data.out[i].issues, e.issues[k])

\* C8 as stated: no entry leaderboard_impl returns has the score None or
\* the score NULL_SCORE.
C8_NoNullOrSentinelScore ==
    (data.called /\ ~data.none) =>
        \A i \in 1..Len(data.out) :
            data.out[i].score \notin {NoScore, NULL_SCORE}

\* C8 amended: no entry leaderboard_impl returns has the score None; the
\* entries whose score is NULL_SCORE are returned, and the leaderboard view
\* keeps them out of its ranking (tops) and lists them, in order, in shame.
C8_NoneDroppedSentinelShamed ==
    (data.called /\ ~data.none) =>
        /\ \A i \in 1..Len(data.out) : data.out[i].score # NoScore
        /\ \A i \in 1..Len(view.tops) : view.tops[i].score # NULL_SCORE
        /\ \A i \in 1..Len(view.shame) : view.shame[i].score = NULL_SCORE
        /\ Len(view.tops) + Len(view.shame) = Len(data.out)
        /\ \A i \in 1..Len(data.out) :
              \/ InList(view.tops, data.out[i])
              \/ InList(view.shame, data.out[i])

\* C8 witness: the month asked for holds a summary without a score, which
\* is not returned, and one with NULL_SCORE, which is returned and shamed.
C8_Witness ==
    /\ data.called /\ ~data.none
    /\ \E e \in entities : e.name = Lower(when) /\ e.score = NoScore
    /\ Len(data.out) = 1
    /\ Len(view.shame) = 1
    /\ view.shame[1].score = NULL_SCORE

\* C9: leaderboard_impl returns at most limit entries, in ascending order
\* of score, for every kind of key.
C9_LimitedAndSorted ==
    (data.called /\ ~data.none) =>
        /\ Len(data.out) <= limit
        /\ \A i, j \in 1..Len(data.out) :
              i < j => data.out[i].score <= data.out[j].score

\* C9 witness: a quarter whose store holds three monthly summaries of two
\* accounts, asked with limit 2, answered with two entries of different
\* scores.
C9_Witness ==
    /\ data.called /\ ~data.none
    /\ IsQuarter(when)
    /\ limit = 2
    /\ Cardinality({e \in entities : e.name \in MonthsOfQuarter(when)}) = 3
    /\ Len(data.out) = 2
    /\ data.out[1].score < data.out[2].score

-----------------------------------------------------------------------------
(* The people of a review.  An address is a sequence of one-character      *)
(* strings.  The dates of the model lie in January 2010: a datetime is     *)
(* [day, sec], the day of the month and the second of that day.            *)

\* "c in str".
Contains(str, c) == \E i \in 1..Len(str) : str[i] = c

\* str.startswith(prefix).
StartsWith(str, prefix) ==
    /\ Len(str) >= Len(prefix)
    /\ SubSeq(str, 1, Len(prefix)) = prefix

\* str.endswith(suffix).
EndsWith(str, suffix) ==
    /\ Len(str) >= Len(suffix)
    /\ SubSeq(str, Len(str) - Len(suffix) + 1, Len(str)) = suffix

\* str.count(c) of one character.
CountChar(str, c) == Cardinality({i \in 1..Len(str) : str[i] = c})

CommitBot == <<"c", "o", "m", "m", "i", "t", "-", "b", "o", "t">>

ServiceAccount ==
    <<"g", "s", "e", "r", "v", "i", "c", "e", "a", "c", "c", "o", "u", "n",
      "t", ".", "c", "o", "m">>

\* The addresses the first filter of figure_out_real_accounts removes.
IsRoleAddress(i) ==
    \/ Contains(i, "+")
    \/ StartsWith(i, CommitBot)
    \/ EndsWith(i, ServiceAccount)

\* models.Issue.query(models.Issue.owner == users.User(r)).fetch(limit=1)
\* is not empty.
OwnsIssue(r) == \E id \in DOMAIN issue_db : issue_db[id].owner = r

\* people_caches = {"fake": set(), "real": set()}.
NewCaches == [fake |-> {}, real |-> {}]

\* figure_out_real_accounts, were it to take every address left by the
\* filter for an account without looking for an issue it owns.
figure_out_real_accounts_without_lookup(people_involved, people_caches) ==
    LET involved == {i \in people_involved : ~IsRoleAddress(i)}
                        \ people_caches.fake
    IN  [people |-> involved,
         caches |-> [people_caches EXCEPT !.real = @ \cup involved],
         looked_up |-> {}]

\* figure_out_real_accounts, were the addresses known to be real looked up
\* again.
figure_out_real_accounts_forgetting_real(people_involved, people_caches) ==
    LET involved == {i \in people_involved : ~IsRoleAddress(i)}
                        \ people_caches.fake
        nobodies == {r \in involved : ~OwnsIssue(r)}
    IN  [people |-> involved \ nobodies,
         caches |-> [fake |-> people_caches.fake \cup nobodies,
                     real |-> people_caches.real
                                  \cup (involved \ nobodies)],
         looked_up |-> involved]

\* figure_out_real_accounts: the people returned, people_caches as the
\* call leaves it, and the addresses it queried the issues of.
figure_out_real_accounts(people_involved, people_caches) ==
    LET involved == {i \in people_involved : ~IsRoleAddress(i)}
                        \ people_caches.fake
        people_to_look_for == involved \ people_caches.real
        nobodies == {r \in people_to_look_for : ~OwnsIssue(r)}
    IN  [people |-> involved \ nobodies,
         caches |-> [fake |-> people_caches.fake \cup nobodies,
                     real |-> people_caches.real
                                  \cup (people_to_look_for \ nobodies)],
         looked_up |-> people_to_look_for]

\* None, where the source has an index into messages.  The indices of the
\* model start at 1, the source's at 0.
NoIndex == 0

\* The loop of search_relevant_first_email_for_user from message i on.
RECURSIVE SearchFrom(_, _, _, _, _, _)
SearchFrom(issue_owner, messages, user, people_caches, i, last_owner_message_index) ==
    IF i > Len(messages)
    THEN [index |-> last_owner_message_index, drive_by |-> FALSE,
          caches |-> people_caches]
    ELSE LET m == messages[i]
             real == figure_out_real_accounts(
                         m.recipients \ {m.sender, issue_owner},
                         people_caches)
         IN  IF m.sender = issue_owner
             THEN IF user \in m.recipients
                  THEN [index |-> i, drive_by |-> FALSE,
                        caches |-> people_caches]
                  ELSE IF real.people = {}
                  THEN [index |-> i, drive_by |-> FALSE,
                        caches |-> real.caches]
                  ELSE SearchFrom(issue_owner, messages, user, real.caches,
                                  i + 1, i)
             ELSE IF m.sender = user
             THEN IF last_owner_message_index # NoIndex
                  THEN [index |-> last_owner_message_index,
                        drive_by |-> TRUE, caches |-> people_caches]
                  ELSE [index |-> i, drive_by |-> TRUE,
                        caches |-> people_caches]
             ELSE IF user \in m.recipients
             THEN [index |-> i, drive_by |-> FALSE, caches |-> people_caches]
             ELSE SearchFrom(issue_owner, messages, user, people_caches,
                             i + 1, last_owner_message_index)

\* The search, were the last message of the issue owner returned whatever
\* the user has sent.
search_last_owner_message(issue_owner, messages, user, people_caches) ==
    LET sent == {i \in 1..Len(messages) : messages[i].sender = issue_owner}
    IN  [index |-> IF sent = {} THEN NoIndex
                   ELSE CHOOSE i \in sent : \A j \in sent : j <= i,
         drive_by |-> FALSE, caches |-> people_caches]

search_relevant_first_email_for_user(issue_owner, messages, user, people_caches) ==
    IF issue_owner = user
    THEN [index |-> NoIndex, drive_by |-> FALSE, caches |-> people_caches]
    ELSE SearchFrom(issue_owner, messages, user, people_caches, 1, NoIndex)

-----------------------------------------------------------------------------
(* process_issue.  The text of a message is one of "", "lgtm" and          *)
(* "not lgtm"; Message.find is in models.py and is taken from the          *)
(* specification: a text matches the LGTM pattern, and can match the       *)
(* NOT-LGTM pattern as well.                                               *)

\* m.find(models.Message.LGTM_RE, owner_allowed=True).
FindLgtm(text) == text \in {"lgtm", "not lgtm"}

\* m.find(models.Message.NOT_LGTM_RE, owner_allowed=True).
FindNotLgtm(text) == text = "not lgtm"

\* None, where the source has a review type.
None == "None"

\* None, where the source has a number of lgtms.
NoLgtms == -1

\* An assert statement of process_issue that fails.
AssertionError == "AssertionError"

\* (a - b).seconds: the seconds of the difference without its days.
SecondsWithoutDays(a, b) == (a.sec - b.sec) % 86400

\* (a - b).total_seconds() of two datetimes, as int() leaves it.
TotalSeconds(a, b) == (a.day - b.day) * 86400 + (a.sec - b.sec)

\* "return -1, None, None".
NothingToUpdate ==
    [latency |-> -1, lgtms |-> NoLgtms, review_type |-> None]

Raised ==
    [latency |-> -1, lgtms |-> NoLgtms, review_type |-> AssertionError]

\* The asserts at the top of process_issue that depend on the values.
ArgumentsAsserted(message_index, issue_owner, messages, user) ==
    /\ message_index = NoIndex \/ message_index \in 1..Len(messages)
    /\ CountChar(issue_owner, "@") = 1
    /\ CountChar(user, "@") = 1

process_issue(start, day_to_process, message_index, drive_by, issue_owner, messages, user) ==
    LET lgtms == Cardinality({i \in 1..Len(messages) :
                                 /\ messages[i].sender = user
                                 /\ FindLgtm(messages[i].text)
                                 /\ ~FindNotLgtm(messages[i].text)})
        review_type ==
            IF drive_by
            THEN IF messages[message_index].sender = user
                 THEN NOT_REQUESTED
                 ELSE DRIVE_BY
            ELSE NORMAL
        sent == {i \in message_index..Len(messages) :
                    messages[i].sender = user}
        first == CHOOSE i \in sent : \A j \in sent : i <= j
    IN  IF ~ArgumentsAsserted(message_index, issue_owner, messages, user)
        THEN Raised
        ELSE IF user = issue_owner
        THEN IF ~\E i \in 1..Len(messages) :
                     messages[i].date.day = day_to_process
             THEN NothingToUpdate
             ELSE [latency |-> -1, lgtms |-> lgtms, review_type |-> OUTGOING]
        ELSE IF message_index = NoIndex
        THEN NothingToUpdate
        ELSE IF sent # {}
        THEN IF messages[first].date.day < day_to_process
             THEN NothingToUpdate
             ELSE [latency |-> TotalSeconds(messages[first].date, start),
                   lgtms |-> lgtms, review_type |-> review_type]
        ELSE IF lgtms # 0
        THEN Raised
        ELSE [latency |-> -1, lgtms |-> lgtms, review_type |-> IGNORED]

-----------------------------------------------------------------------------
(* yield_people_issue_to_update.  The generator reads the Issue and        *)
(* Message entities only, so the packets of a run are taken at its start.  *)
(* The sets the source iterates over are walked in the order of People.    *)

\* The constants of update_daily_stats.
chunk_size == 10

max_futures == 200

Address(name) == <<name, "@", "x">>

Owner == Address("o")

Reviewer == Address("a")

Other == Address("b")

MailingList == Address("m")

Alias == <<"a", "+", "c", "@", "x">>

\* chunk_size more owners, "0@x" to "9@x".
ManyOwners == [i \in 1..chunk_size |-> Address(DigitChars[i])]

People == <<Owner, Reviewer, Other, MailingList, Alias>> \o ManyOwners

\* "for user in <set>".
InSomeOrder(set) ==
    LET Member(p) == p \in set
    IN  SelectSeq(People, Member)

\* str(date), of the day of January 2010.
DateStr(day) ==
    Format04d(2010) \o <<"-">> \o Format02d(1) \o <<"-">> \o Format02d(day)

\* a < b of two datetimes.
Before(a, b) == a.day < b.day \/ (a.day = b.day /\ a.sec < b.sec)

\* datetime.datetime.strptime(task, DATE_FORMAT): midnight of the day.
Midnight(day) == [day |-> day, sec |-> 0]

\* The messages of the issue, sorted by date, without those after
\* day_to_process.
MessagesUpTo(issue_id, day_to_process) ==
    LET Kept(m) == m.issue = issue_id /\ m.date.day <= day_to_process
    IN  SelectSeq(message_db, Kept)

\* people_to_consider.
PeopleToConsider(issue, messages) ==
    LET senders == {messages[i].sender : i \in 1..Len(messages)}
        recipients ==
            UNION {messages[i].recipients : i \in 1..Len(messages)}
    IN  senders \cup {issue.owner}
            \cup {r \in recipients : \/ r \in senders
                                     \/ r \in issue.reviewers
                                     \/ r \notin issue.cc}

\* start, were it the date of the last message kept.
StartOfLastMessage(issue, messages, user, message_index, drive_by) ==
    messages[Len(messages)].date

\* start: the creation of the issue, or the date of the message found.
StartOf(issue, messages, user, message_index, drive_by) ==
    IF \/ message_index = NoIndex
       \/ /\ drive_by
          /\ messages[message_index].sender = user
          /\ ~\E j \in 1..(message_index - 1) :
                 messages[j].sender = issue.owner
    THEN issue.created
    ELSE messages[message_index].date

\* The local state of the generator before it has looked at a message.
NewGenerator ==
    [issues |-> {}, people_caches |-> NewCaches, need_to_update |-> {},
     out |-> <<>>, messages_looked_up |-> 0, processed |-> <<>>, stop |-> 0,
     calls |-> <<>>]

\* "for user in figure_out_real_accounts(...)", on the users left.
RECURSIVE YieldUsers(_, _, _, _, _)
YieldUsers(day_to_process, issue_id, messages, users, g) ==
    IF users = <<>>
    THEN g
    ELSE LET user == Head(users)
             issue == issue_db[issue_id]
             found == search_relevant_first_email_for_user(
                          issue.owner, messages, user, g.people_caches)
             start == StartOf(issue, messages, user, found.index,
                              found.drive_by)
             start_str == DateStr(start.day)
             entry == <<user, start_str, issue_id>>
             triple == process_issue(start, day_to_process, found.index,
                                     found.drive_by, issue.owner, messages,
                                     user)
             searched == [g EXCEPT !.people_caches = found.caches]
             noted == [searched EXCEPT
                          !.need_to_update = @ \cup {entry},
                          !.calls = Append(@, [user |-> user,
                                               messages |-> messages,
                                               message_index |-> found.index,
                                               triple |-> triple])]
             yielded ==
                 [noted EXCEPT !.out =
                     Append(@, [user |-> user, day |-> start_str,
                                issue_id |-> issue_id,
                                latency |-> triple.latency,
                                lgtms |-> triple.lgtms,
                                review_type |-> triple.review_type])]
         IN  YieldUsers(day_to_process, issue_id, messages, Tail(users),
                        IF entry \in g.need_to_update
                        THEN searched
                        ELSE IF triple.review_type = None
                        THEN noted
                        ELSE yielded)

\* The body of the scan for an issue that was not processed yet.
ScanIssue(day_to_process, issue_id, g) ==
    LET issue == issue_db[issue_id]
        messages == MessagesUpTo(issue_id, day_to_process)
        real == figure_out_real_accounts(
                    PeopleToConsider(issue, messages),
                    [g.people_caches EXCEPT !.real = @ \cup {issue.owner}])
    IN  YieldUsers(day_to_process, issue_id, messages,
                   InSomeOrder(real.people),
                   [g EXCEPT !.issues = @ \cup {issue_id},
                             !.processed = Append(@, issue_id),
                             !.people_caches = real.caches])

\* The scan, were the date of a message looked at before its issue: it
\* ends at the first message after the day, whatever its issue.
RECURSIVE ScanMessagesStrict(_, _, _)
ScanMessagesStrict(day_to_process, i, g) ==
    IF i > Len(message_db)
    THEN g
    ELSE LET m == message_db[i]
             counted == [g EXCEPT !.messages_looked_up = @ + 1]
         IN  IF Before(m.date, Midnight(day_to_process))
             THEN ScanMessagesStrict(day_to_process, i + 1, g)
             ELSE IF m.date.day > day_to_process
             THEN [g EXCEPT !.stop = i]
             ELSE IF m.issue \in g.issues
             THEN ScanMessagesStrict(day_to_process, i + 1, counted)
             ELSE ScanMessagesStrict(day_to_process, i + 1,
                                     ScanIssue(day_to_process, m.issue,
                                               counted))

\* The scan of the messages whose date is day_to_process or later, from
\* message i on.  g.stop is the message the scan ends at with "cursor =
\* None", 0 when it ends with the last page, and g.processed the issues in
\* the order their bodies ran.
RECURSIVE ScanMessages(_, _, _)
ScanMessages(day_to_process, i, g) ==
    IF i > Len(message_db)
    THEN g
    ELSE LET m == message_db[i]
             counted == [g EXCEPT !.messages_looked_up = @ + 1]
         IN  IF Before(m.date, Midnight(day_to_process))
             THEN ScanMessages(day_to_process, i + 1, g)
             ELSE IF m.issue \in g.issues
             THEN ScanMessages(day_to_process, i + 1, counted)
             ELSE IF m.date.day > day_to_process
             THEN [g EXCEPT !.stop = i]
             ELSE ScanMessages(day_to_process, i + 1,
                               ScanIssue(day_to_process, m.issue, counted))

\* The packets the generator yields, in the order it yields them.
yield_people_issue_to_update(day_to_process) ==
    ScanMessages(day_to_process, 1, NewGenerator).out

-----------------------------------------------------------------------------
(* update_daily_stats, a step at a time.  An invocation r walks            *)
(* runs[r].todo, the packets its generator yields.  ndb.put_multi_async    *)
(* hands a list of entities to the datastore, which writes them later:     *)
(* runs[r].futures holds the lists handed over and not written yet.        *)

\* ndb.Key("Account", models.Account.get_id_for_email(user)); the id of an
\* account is taken to be its address.
AccountKey(user) == <<"Account", user>>

\* The position in items of the entity with the key, 0 without one.
ItemIndex(items, key) ==
    IF \E i \in 1..Len(items) : items[i].key = key
    THEN CHOOSE i \in 1..Len(items) :
             /\ items[i].key = key
             /\ \A j \in 1..(i - 1) : items[j].key # key
    ELSE 0

\* The entities stored once the datastore has written the list.
RECURSIVE PutMulti(_, _)
PutMulti(store, items) ==
    IF items = <<>>
    THEN store
    ELSE PutMulti(Put(store, Head(items).key, Head(items).item), Tail(items))

\* "modified = DateTimeProperty(auto_now=True)": every entity of the list
\* is stamped with the time of its put.
Stamped(modified, items, day) ==
    LET put == {items[i].key : i \in 1..Len(items)}
    IN  [k \in DOMAIN modified \cup put |->
            IF k \in put THEN day ELSE modified[k]]

\* len(futures): one future for each entity handed over.
RECURSIVE CountFutures(_)
CountFutures(futures) ==
    IF futures = <<>>
    THEN 0
    ELSE Len(Head(futures)) + CountFutures(Tail(futures))

\* The sequence without its element i.
Without(seq, i) == SubSeq(seq, 1, i - 1) \o SubSeq(seq, i + 1, Len(seq))

\* The call of update_daily_stats: the generator is created.
Begin(r, day_to_process) ==
    /\ runs[r].pc = "idle"
    /\ runs' = [runs EXCEPT ![r] =
                   [pc |-> "loop", day |-> day_to_process,
                    todo |-> yield_people_issue_to_update(day_to_process),
                    items |-> <<>>, futures |-> <<>>, result |-> 0,
                    after |-> {q \in Invocations : runs[q].pc = "done"},
                    out |-> <<>>]]
    /\ UNCHANGED <<mergeVars, quarterVars, boardVars, issue_db, message_db,
                   laterVars>>

\* The body of the loop for the next packet, with the put of the chunk
\* when items has chunk_size entities.  A packet that stands for a failed
\* assert of the generator is not handled: the exception ends the loop.
HandlePacket(r) ==
    /\ runs[r].pc = "loop"
    /\ runs[r].todo # <<>>
    /\ Head(runs[r].todo).review_type # AssertionError
    /\ CountFutures(runs[r].futures) <= max_futures
    /\ LET p == Head(runs[r].todo)
           key == <<AccountKey(p.user), p.day>>
           at == ItemIndex(runs[r].items, key)
           found == at # 0
           item == IF found
                   THEN runs[r].items[at].item
                   ELSE GetOrNew(stats, key)
           stores == MergeStores(item, p.issue_id, p.latency, p.lgtms,
                                 p.review_type)
           new == MergeItem(item, p.issue_id, p.latency, p.lgtms,
                            p.review_type)
           items == IF ~stores
                    THEN runs[r].items
                    ELSE IF found
                    THEN [runs[r].items EXCEPT ![at].item = new]
                    ELSE Append(runs[r].items, [key |-> key, item |-> new])
           full == stores /\ ~found /\ Len(items) = chunk_size
       IN  /\ runs' = [runs EXCEPT
                          ![r].todo = Tail(@),
                          ![r].items = IF full THEN <<>> ELSE items,
                          ![r].futures = IF full THEN Append(@, items) ELSE @]
           /\ branch' = MergeBranch(item, p.issue_id, p.latency, p.lgtms,
                                    p.review_type)
           /\ logged' = MergeLog(item, p.issue_id, p.latency, p.lgtms,
                                 p.review_type)
    /\ UNCHANGED <<stats, packet, quarterVars, boardVars, issue_db,
                   message_db, laterVars>>

\* After the loop: the put of the items left, before wait_all.
PutLastItems(r) ==
    /\ runs[r].pc = "loop"
    /\ runs[r].todo = <<>>
    /\ CountFutures(runs[r].futures) <= max_futures
    /\ runs' = [runs EXCEPT
                   ![r].pc = "wait",
                   ![r].items = <<>>,
                   ![r].futures = IF runs[r].items # <<>>
                                  THEN Append(@, runs[r].items)
                                  ELSE @]
    /\ UNCHANGED <<mergeVars, quarterVars, boardVars, issue_db, message_db,
                   laterVars>>

\* The datastore writes the entities of one put_multi_async.
PutDone(r, i) ==
    /\ i \in 1..Len(runs[r].futures)
    /\ stats' = PutMulti(stats, runs[r].futures[i])
    /\ modified_db' = Stamped(modified_db, runs[r].futures[i], utcnow)
    /\ runs' = [runs EXCEPT ![r].futures = Without(@, i)]
    /\ UNCHANGED <<packet, branch, logged, quarterVars, boardVars, issue_db,
                   message_db, unstampedVars>>

\* ndb.Future.wait_all(futures) returns: status 200.
WaitAll(r) ==
    /\ runs[r].pc = "wait"
    /\ runs[r].futures = <<>>
    /\ runs' = [runs EXCEPT ![r].pc = "done", ![r].result = 200,
                            ![r].out = stats]
    /\ UNCHANGED <<mergeVars, quarterVars, boardVars, issue_db, message_db,
                   laterVars>>

\* db.Timeout or DeadlineExceededError in the try block: status 500.  The
\* lists handed to the datastore are not waited for.  A failed assert of
\* the generator is not caught and ends the request in the same way.
Timeout(r) ==
    /\ runs[r].pc \in {"loop", "wait"}
    /\ runs' = [runs EXCEPT ![r].pc = "done", ![r].result = 500,
                            ![r].todo = <<>>, ![r].items = <<>>,
                            ![r].out = stats]
    /\ UNCHANGED <<mergeVars, quarterVars, boardVars, issue_db, message_db,
                   laterVars>>

\* The response is delivered and the request is over; what the datastore
\* has not written by then is not written.
Acknowledge(r) ==
    /\ runs[r].pc = "done"
    /\ runs' = [runs EXCEPT ![r] = IdleRun]
    /\ UNCHANGED <<mergeVars, quarterVars, boardVars, issue_db, message_db,
                   laterVars>>

-----------------------------------------------------------------------------
(* The stores of the daily specifications.  A small store has one issue    *)
(* under review, owned by o@x, with a@x a reviewer and m@x in cc, and a    *)
(* thread of up to MaxMessages messages sent on the days 1..MaxDay; a@x    *)
(* and b@x own an issue each, m@x owns none.  The large store has          *)
(* chunk_size + 1 issues with one message each, of chunk_size owners.      *)

MaxMessages == 2

MaxDay == 3

Days == 1..MaxDay

\* What a message of the thread can be: sender, recipients and text.
Posts ==
    {[sender |-> Owner, recipients |-> {Reviewer}, text |-> ""],
     [sender |-> Owner, recipients |-> {MailingList}, text |-> ""],
     [sender |-> Owner, recipients |-> {Alias}, text |-> ""],
     [sender |-> Reviewer, recipients |-> {Owner}, text |-> ""],
     [sender |-> Reviewer, recipients |-> {Owner}, text |-> "lgtm"],
     [sender |-> Reviewer, recipients |-> {Owner}, text |-> "not lgtm"],
     [sender |-> Other, recipients |-> {Reviewer}, text |-> ""]}

Threads == UNION {[1..n -> Posts] : n \in 1..MaxMessages}

\* The days the messages of a thread are sent on, never going back.
SendingDays(n) ==
    {days \in [1..n -> Days] : \A i \in 1..(n - 1) : days[i] <= days[i + 1]}

SmallIssues ==
    <<[owner |-> Owner, created |-> [day |-> 1, sec |-> 0],
       reviewers |-> {Reviewer}, cc |-> {MailingList}],
      [owner |-> Reviewer, created |-> [day |-> 1, sec |-> 0],
       reviewers |-> {}, cc |-> {}],
      [owner |-> Other, created |-> [day |-> 1, sec |-> 0],
       reviewers |-> {}, cc |-> {}]>>

\* The messages of issue 1: message i is sent in second i of its day.
SmallMessages(posts, days) ==
    [i \in 1..Len(posts) |->
        [issue |-> 1, date |-> [day |-> days[i], sec |-> i],
         sender |-> posts[i].sender, recipients |-> posts[i].recipients,
         text |-> posts[i].text]]

ManyIssues ==
    [i \in 1..(chunk_size + 1) |->
        [owner |-> ManyOwners[((i - 1) % chunk_size) + 1],
         created |-> [day |-> 1, sec |-> 0], reviewers |-> {}, cc |-> {}]]

ManyMessages ==
    [i \in 1..(chunk_size + 1) |->
        [issue |-> i, date |-> [day |-> 1, sec |-> i],
         sender |-> ManyOwners[((i - 1) % chunk_size) + 1],
         recipients |-> {}, text |-> ""]]

DailyStores ==
    {[issues |-> SmallIssues, messages |-> SmallMessages(posts, days)] :
        <<posts, days>> \in
            UNION {{<<posts, days>> : days \in SendingDays(Len(posts))} :
                      posts \in Threads}}
    \cup {[issues |-> ManyIssues, messages |-> ManyMessages]}

DailyInit ==
    /\ MergeIdle
    /\ QuarterIdle
    /\ BoardIdle
    /\ LaterIdle
    /\ \E store \in DailyStores :
          /\ issue_db = store.issues
          /\ message_db = store.messages
    /\ runs = [r \in Invocations |-> IdleRun]

\* One invocation at a time, for any day, again and again.
DailyNext ==
    \/ \E day \in Days : Begin(1, day)
    \/ HandlePacket(1)
    \/ PutLastItems(1)
    \/ \E i \in 1..Len(runs[1].futures) : PutDone(1, i)
    \/ WaitAll(1)
    \/ Timeout(1)
    \/ Acknowledge(1)

SpecDaily == DailyInit /\ [][DailyNext]_vars

\* The task of a day delivered twice: the second invocation begins while
\* the first is running, or after it has returned.
Redeliver(r, day_to_process) ==
    /\ \A q \in Invocations : runs[q].day \in {0, day_to_process}
    /\ Begin(r, day_to_process)

RedeliveryNext ==
    \E r \in Invocations :
        \/ \E day \in Days : Redeliver(r, day)
        \/ HandlePacket(r)
        \/ PutLastItems(r)
        \/ \E i \in 1..Len(runs[r].futures) : PutDone(r, i)
        \/ WaitAll(r)
        \/ Timeout(r)

SpecRedelivery == DailyInit /\ [][RedeliveryNext]_vars

-----------------------------------------------------------------------------
(* Claims about the daily aggregator.                                      *)

\* The day of the anchor start of the user on the issue, over all the
\* messages of the store.
AnchorDay(user, issue_id) ==
    LET messages == MessagesUpTo(issue_id, MaxDay)
        found == search_relevant_first_email_for_user(
                     issue_db[issue_id].owner, messages, user, NewCaches)
    IN  StartOf(issue_db[issue_id], messages, user, found.index,
                found.drive_by).day

\* The keys of the stored AccountStatsDay of the account that list the
\* issue.
RecordsWith(account_key, issue_id) ==
    {k \in DOMAIN stats :
        k[1] = account_key /\ InList(stats[k].issues, issue_id)}

\* C4: whatever days the aggregator has run for, in whatever order, a
\* (user, issue) pair has an entry in at most one AccountStatsDay of the
\* user, the one of the date of its anchor start; a reply on a later day
\* makes no entry in the record of that later day.
C4_EntryOnlyAtAnchor ==
    \A k \in DOMAIN stats :
        \A i \in 1..Len(stats[k].issues) :
            /\ k[2] = DateStr(AnchorDay(k[1][2], stats[k].issues[i]))
            /\ RecordsWith(k[1], stats[k].issues[i]) = {k}

\* C4 witness: the run for day 3 has returned, and the reply a@x sent on
\* day 3 to the request of day 1 is in the record of day 1, two days of
\* latency or more, with no record of day 3 for the issue.
C4_Witness ==
    /\ runs[1].pc = "done"
    /\ runs[1].result = 200
    /\ runs[1].day = 3
    /\ \E i \in 1..Len(message_db) :
          message_db[i].sender = Reviewer /\ message_db[i].date.day = 3
    /\ <<AccountKey(Reviewer), DateStr(1)>> \in DOMAIN stats
    /\ LET item == stats[<<AccountKey(Reviewer), DateStr(1)>>]
       IN  /\ InList(item.issues, 1)
           /\ item.latencies[ListIndex(item.issues, 1)] >= 2 * 86400
           /\ item.review_types[ListIndex(item.issues, 1)] = NORMAL
    /\ RecordsWith(AccountKey(Reviewer), 1)
           = {<<AccountKey(Reviewer), DateStr(1)>>}

\* The entities stored after the packets are merged one after the other,
\* each put written before the next get.
RECURSIVE MergePacketsInto(_, _)
MergePacketsInto(store, packets) ==
    IF packets = <<>>
    THEN store
    ELSE LET p == Head(packets)
             key == <<AccountKey(p.user), p.day>>
             item == GetOrNew(store, key)
         IN  MergePacketsInto(
                 IF MergeStores(item, p.issue_id, p.latency, p.lgtms,
                                p.review_type)
                 THEN Put(store, key, MergeItem(item, p.issue_id, p.latency,
                                                p.lgtms, p.review_type))
                 ELSE store,
                 Tail(packets))

\* C3: when an invocation for a day has returned 200 and a second one for
\* the same day begins after that and returns 200, every AccountStatsDay is
\* as the first invocation left it.
C3_SecondRunChangesNothing ==
    \A r \in Invocations : \A q \in runs[r].after :
        (runs[r].pc = "done" /\ runs[r].result = 200 /\ runs[q].result = 200)
            => stats = runs[q].out

\* C6: when two invocations for the same day, each begun before the other
\* returned, have both returned 200, every AccountStatsDay is what a single
\* invocation makes of the store they began with, which is empty.
C6_DuplicateEqualsSingle ==
    (\A r \in Invocations :
        /\ runs[r].pc = "done"
        /\ runs[r].result = 200
        /\ runs[r].after = {})
        => stats = MergePacketsInto(
                       <<>>, yield_people_issue_to_update(runs[1].day))

-----------------------------------------------------------------------------
(* Claims about the keys of a leaderboard request, under SpecBoard.        *)

\* The key names a day, a month or the rolling summary, or is a quarter or
\* a year quarter_to_months expands.
IsPeriodKey(key, now) ==
    \/ verify_account_statistics_name(Lower(key))
    \/ \E n \in 1..4 : IsQuarterKey(key, n)
    \/ IsValidYearKey(key, now)

\* The names of the summaries a request for the key reads.
NamesRead(key, now) ==
    IF verify_account_statistics_name(Lower(key))
    THEN {Lower(key)}
    ELSE LET expanded == quarter_to_months(Lower(key), now)
         IN  {expanded.out[i] : i \in 1..Len(expanded.out)}

\* C11: a request with a key that is no day, month, rolling, quarter or
\* valid year key is answered not-found: leaderboard_impl returns None and
\* both views answer 404.  A request with a valid key is never answered
\* not-found, and without a stored summary for the key it is answered with
\* an empty list.
C11_InvalidKeyNotFound ==
    data.called =>
        /\ data.none <=> ~IsPeriodKey(when, today)
        /\ view.status = (IF IsPeriodKey(when, today) THEN 200 ELSE 404)
        /\ leaderboard_json(data).status = view.status
        /\ (/\ IsPeriodKey(when, today)
            /\ \A e \in entities : e.name \notin NamesRead(when, today))
               => /\ data = Return(<<>>)
                  /\ leaderboard_json(data) = [status |-> 200, body |-> <<>>]
                  /\ view = [status |-> 200, tops |-> <<>>, shame |-> <<>>]

\* C11 witness: the key 2010-Q5 is asked for over a store that holds
\* summaries, and the answer is not-found.
C11_Witness ==
    /\ data.called
    /\ when = <<"2", "0", "1", "0", "-", "Q", "5">>
    /\ entities # {}
    /\ data.none
    /\ view.status = 404

-----------------------------------------------------------------------------
(* process_issue as a function of its arguments.  The arguments are drawn  *)
(* from the threads of at most MaxMessages messages sent on the days of    *)
(* Days; they satisfy the asserts at the top of process_issue.             *)

\* The posts that differ in what process_issue reads: sender and text.
ClassifyPosts == {p \in Posts : p.recipients \in {{Reviewer}, {Owner}}}

ClassifyThreads ==
    UNION {{SmallMessages(posts, days) : days \in SendingDays(Len(posts))} :
              posts \in UNION {[1..n -> ClassifyPosts] : n \in 1..MaxMessages}}

\* "start": the date of the anchor message or the creation of the issue.
ClassifyStarts(messages, message_index) ==
    {SmallIssues[1].created}
    \cup (IF message_index = NoIndex THEN {} ELSE {messages[message_index].date})

\* The arguments of process_issue over a thread.
ClassifyArgs(messages) ==
    [start : {SmallIssues[1].created} \cup {messages[i].date : i \in 1..Len(messages)},
     day_to_process : Days,
     message_index : 0..Len(messages),
     drive_by : BOOLEAN,
     issue_owner : {Owner},
     messages : {messages},
     user : {Owner, Reviewer}]

ClassifyInit ==
    /\ MergeIdle
    /\ QuarterIdle
    /\ BoardIdle
    /\ DailyIdle
    /\ ChainIdle
    /\ MultiIdle
    /\ ClockIdle
    /\ \E messages \in ClassifyThreads :
           /\ args \in ClassifyArgs(messages)
           /\ args.start \in ClassifyStarts(messages, args.message_index)
    /\ ret = NotReturned

\* One call of process_issue.
CallProcessIssue ==
    /\ ~ret.called
    /\ ret' = [called |-> TRUE,
               out |-> process_issue(args.start, args.day_to_process,
                                     args.message_index, args.drive_by,
                                     args.issue_owner, args.messages,
                                     args.user)]
    /\ UNCHANGED <<args, mergeVars, quarterVars, boardVars, dailyVars,
                   chainVars, multiVars, utcnow, modified_db>>

ClassifyNext == CallProcessIssue

SpecClassify == ClassifyInit /\ [][ClassifyNext]_vars

\* The number of the user's messages matching LGTM and not NOT-LGTM.
LgtmCount(a) ==
    Cardinality({i \in 1..Len(a.messages) :
                    /\ a.messages[i].sender = a.user
                    /\ a.messages[i].text = "lgtm"})

\* The messages of the user at or after the anchor.
RepliesFrom(a) ==
    {i \in 1..Len(a.messages) :
        i >= a.message_index /\ a.messages[i].sender = a.user}

\* The rules of the classifier, in order, for arguments with an anchor.
RuleOfReview(a, ignored) ==
    LET type == IF a.drive_by
                THEN IF a.messages[a.message_index].sender = a.user
                     THEN NOT_REQUESTED
                     ELSE DRIVE_BY
                ELSE NORMAL
        reply == CHOOSE i \in RepliesFrom(a) : \A j \in RepliesFrom(a) : i <= j
    IN  IF RepliesFrom(a) = {}
        THEN ignored
        ELSE IF a.messages[reply].date.day < a.day_to_process
        THEN [latency |-> -1, lgtms |-> NoLgtms, review_type |-> None]
        ELSE [latency |-> (a.messages[reply].date.day - a.start.day) * 86400
                          + a.messages[reply].date.sec - a.start.sec,
              lgtms |-> LgtmCount(a), review_type |-> type]

RuleOf(a, ignored) ==
    IF a.user = a.issue_owner
    THEN IF \A i \in 1..Len(a.messages) :
                a.messages[i].date.day # a.day_to_process
         THEN [latency |-> -1, lgtms |-> NoLgtms, review_type |-> None]
         ELSE [latency |-> -1, lgtms |-> LgtmCount(a), review_type |-> OUTGOING]
    ELSE IF a.message_index = NoIndex
    THEN [latency |-> -1, lgtms |-> NoLgtms, review_type |-> None]
    ELSE RuleOfReview(a, ignored)

-----------------------------------------------------------------------------
(* The request of an owner that reaches no real account.                   *)

\* All the messages of the issue, sorted by date.
ThreadOf(issue_id) ==
    LET OfIssue(m) == m.issue = issue_id
    IN  SelectSeq(message_db, OfIssue)

\* An address that passes the filter and owns an issue.
IsRealAccount(r) == ~IsRoleAddress(r) /\ OwnsIssue(r)

\* The first message of the issue is sent by its owner and none of its
\* recipients other than the owner is a real account.
IsBroadcastRequest(issue_id) ==
    /\ ThreadOf(issue_id) # <<>>
    /\ ThreadOf(issue_id)[1].sender = issue_db[issue_id].owner
    /\ \A r \in ThreadOf(issue_id)[1].recipients \ {issue_db[issue_id].owner} :
           ~IsRealAccount(r)

\* The real users other than the owner who reply after the first message.
LaterRepliers(issue_id) ==
    {u \in {ThreadOf(issue_id)[i].sender : i \in 2..Len(ThreadOf(issue_id))} :
        IsRealAccount(u) /\ u # issue_db[issue_id].owner}

\* The user has a message among those the run for the day reads.
HasRepliedBy(issue_id, u, day) ==
    \E i \in 2..Len(ThreadOf(issue_id)) :
        /\ ThreadOf(issue_id)[i].sender = u
        /\ ThreadOf(issue_id)[i].date.day <= day

\* C13: when the first message of an issue is sent by the owner and none of
\* its recipients other than the owner is a real account, then for every
\* real user u other than the owner who replies later the locator returns
\* (index of that owner message, False); every packet the aggregator yields
\* for u and the issue is NORMAL once the reply is among the messages read,
\* and neither a packet nor a stored record of u has the issue as DRIVE_BY
\* or NOT_REQUESTED.
C13_BroadcastReplyIsNormal ==
    \A issue_id \in 1..Len(issue_db) :
        IsBroadcastRequest(issue_id) =>
            \A u \in LaterRepliers(issue_id) :
                /\ (/\ runs[1].pc # "idle"
                    /\ MessagesUpTo(issue_id, runs[1].day) # <<>>) =>
                       LET found == search_relevant_first_email_for_user(
                                        issue_db[issue_id].owner,
                                        MessagesUpTo(issue_id, runs[1].day),
                                        u, NewCaches)
                       IN  found.index = 1 /\ ~found.drive_by
                /\ \A i \in 1..Len(runs[1].todo) :
                       LET p == runs[1].todo[i]
                       IN  (p.user = u /\ p.issue_id = issue_id) =>
                               /\ p.review_type \notin {DRIVE_BY, NOT_REQUESTED}
                               /\ HasRepliedBy(issue_id, u, runs[1].day)
                                      => p.review_type = NORMAL
                /\ \A k \in DOMAIN stats :
                       (k[1] = AccountKey(u) /\ InList(stats[k].issues, issue_id))
                           => stats[k].review_types[
                                  ListIndex(stats[k].issues, issue_id)]
                                  \notin {DRIVE_BY, NOT_REQUESTED}

\* C13 witness: the owner wrote to the mailing list only, a@x replied, and
\* the run has yielded the packet of a@x for the issue, a NORMAL review.
C13_Witness ==
    /\ Len(message_db) = 2
    /\ message_db[1].sender = Owner
    /\ message_db[1].recipients = {MailingList}
    /\ message_db[2].sender = Reviewer
    /\ runs[1].pc = "loop"
    /\ \E i \in 1..Len(runs[1].todo) :
           /\ runs[1].todo[i].user = Reviewer
           /\ runs[1].todo[i].issue_id = 1
           /\ runs[1].todo[i].review_type = NORMAL

-----------------------------------------------------------------------------
(* search_relevant_first_email_for_user as a function of its arguments:    *)
(* the threads of at most MaxMessages messages of issue 1, the accounts of *)
(* SmallIssues, and people_caches as the generator has it at the first     *)
(* issue.                                                                  *)

\* The threads, all sent on the first day: the function reads no date.
LocateThreads ==
    {SmallMessages(posts, [i \in 1..Len(posts) |-> 1]) : posts \in Threads}

LocateArgs ==
    [issue_owner : {Owner},
     messages : LocateThreads,
     user : {Owner, Reviewer, Other},
     people_caches : {[NewCaches EXCEPT !.real = {Owner}]}]

LocateInit ==
    /\ MergeIdle
    /\ QuarterIdle
    /\ BoardIdle
    /\ issue_db = SmallIssues
    /\ message_db = <<>>
    /\ runs = [r \in Invocations |-> IdleRun]
    /\ ChainIdle
    /\ MultiIdle
    /\ ClockIdle
    /\ args \in LocateArgs
    /\ ret = NotReturned

\* One call of search_relevant_first_email_for_user.
CallSearch ==
    /\ ~ret.called
    /\ ret' = [called |-> TRUE,
               out |-> search_relevant_first_email_for_user(
                           args.issue_owner, args.messages, args.user,
                           args.people_caches)]
    /\ UNCHANGED <<args, mergeVars, quarterVars, boardVars, dailyVars,
                   chainVars, multiVars, utcnow, modified_db>>

LocateNext == CallSearch

SpecLocate == LocateInit /\ [][LocateNext]_vars

\* C14: whenever search_relevant_first_email_for_user returns an index that
\* is not None, the message at that index was sent by issue_owner or by
\* user.
C14_IndexSentByOwnerOrUser ==
    (ret.called /\ ret.out.index # NoIndex) =>
        args.messages[ret.out.index].sender \in {args.issue_owner, args.user}

-----------------------------------------------------------------------------
(* The parameters of a request to task_update_stats, as the strings the    *)
(* queue carries.                                                          *)

TaskRolling == <<"3", "0">>

TaskMonthly == <<"m", "o", "n", "t", "h", "l", "y">>

\* A task name task_update_stats does not know.
TaskUnknown == <<"w", "e", "e", "k", "l", "y">>

\* A task with two dashes that is not a date.
TaskNoDate == <<"2", "0", "1", "0", "-", "0", "1", "-", "9", "9">>

Quote == <<"\"">>

\* json.dumps(tasks) of a list of strings.
RECURSIVE JoinQuoted(_)
JoinQuoted(tasks) ==
    IF tasks = <<>>
    THEN <<>>
    ELSE Quote \o Head(tasks) \o Quote
            \o (IF Len(tasks) > 1
                THEN <<",", " ">> \o JoinQuoted(Tail(tasks))
                ELSE <<>>)

json_dumps(tasks) == <<"[">> \o JoinQuoted(tasks) \o <<"]">>

\* json.loads(text) of a list of strings: the characters between the
\* quotes, from character i on.
RECURSIVE LoadItems(_, _, _, _, _)
LoadItems(text, i, quoted, item, out) ==
    IF i > Len(text)
    THEN out
    ELSE IF text[i] = Quote[1]
    THEN IF quoted
         THEN LoadItems(text, i + 1, FALSE, <<>>, Append(out, item))
         ELSE LoadItems(text, i + 1, TRUE, <<>>, out)
    ELSE IF quoted
    THEN LoadItems(text, i + 1, TRUE, Append(item, text[i]), out)
    ELSE LoadItems(text, i + 1, FALSE, item, out)

json_loads(text) == LoadItems(text, 1, FALSE, <<>>, <<>>)

\* str.split("-").
RECURSIVE SplitDash(_, _, _)
SplitDash(str, part, out) ==
    IF str = <<>>
    THEN Append(out, part)
    ELSE IF Head(str) = "-"
    THEN SplitDash(Tail(str), <<>>, Append(out, part))
    ELSE SplitDash(Tail(str), Append(part, Head(str)), out)

\* calendar.monthrange(year, month)[1].
DaysInMonth(year, month) ==
    IF month \in {4, 6, 9, 11} THEN 30
    ELSE IF month # 2 THEN 31
    ELSE IF year % 4 = 0 /\ (year % 100 # 0 \/ year % 400 = 0) THEN 29
    ELSE 28

\* datetime.datetime.strptime(str, "%Y-%m-%d"): the date, or ok = FALSE for
\* the ValueError.
strptime(str) ==
    LET parts == SplitDash(str, <<>>, <<>>)
        wellFormed == /\ Len(parts) = 3
                      /\ \A i \in 1..3 : IsDigit(parts[i])
                      /\ Len(parts[1]) = 4
                      /\ Len(parts[2]) <= 2
                      /\ Len(parts[3]) <= 2
        year == ParseInt(parts[1])
        month == ParseInt(parts[2])
        day == ParseInt(parts[3])
    IN  IF /\ wellFormed
           /\ year >= 1
           /\ month \in 1..12
           /\ day \in 1..DaysInMonth(year, month)
        THEN [ok |-> TRUE, year |-> year, month |-> month, day |-> day]
        ELSE [ok |-> FALSE, year |-> 0, month |-> 0, day |-> 0]

\* A query cursor is the number of results before it; None and the cursor
\* of an empty string are 0.  cursor.urlsafe(), and ndb.Cursor(urlsafe=s).
urlsafe(cursor) == IF cursor = 0 THEN <<>> ELSE FormatD(cursor)

\* The cursor of a request that is never read back: the query starts over.
CursorLost(str) == 0

Cursor(str) == IF str = <<>> THEN 0 ELSE ParseInt(str)

-----------------------------------------------------------------------------
(* update_rolling_stats and update_monthly_stats, a step at a time.  The   *)
(* AccountStatsMulti entities are multi_db: the key (account key, name)    *)
(* maps to the summary and the day it was put.  The asynchronous puts and  *)
(* deletes are job.futures until the datastore has done them.             *)

\* The number of results of fetch_page in both functions.
page_size == 100

\* "next_cursor" before update_rolling_stats has assigned it.
Unbound == -1

Min(a, b) == IF a <= b THEN a ELSE b

\* query.fetch_page(100, start_cursor=cursor) on the results in order.
Page(results, cursor) ==
    SubSeq(results, cursor + 1, Min(cursor + page_size, Len(results)))

\* models.Account.query(), keys only, in key order.
AccountKeys == InSomeOrder(account_db)

\* The days of January among str(reference_day - timedelta(days=i)) for i in
\* range(30), in that order.  Day 0 is the last day of December.
RECURSIVE WindowDays(_, _)
WindowDays(reference_day, i) ==
    IF i = 30 THEN <<>>
    ELSE (IF reference_day - i \in 1..31 THEN <<reference_day - i>> ELSE <<>>)
             \o WindowDays(reference_day, i + 1)

\* [_f for _f in ndb.get_multi(days_keys) if _f]: the entities that exist.
RECURSIVE GetDays(_, _)
GetDays(user, days) ==
    IF days = <<>> THEN <<>>
    ELSE LET key == <<AccountKey(user), DateStr(Head(days))>>
         IN  (IF key \in DOMAIN stats THEN <<stats[key]>> ELSE <<>>)
                 \o GetDays(user, Tail(days))

\* delete_multi_async(to_delete) and put_multi_async(items).
DeleteFuture(keys) == [op |-> "delete", list |-> <<>>, keys |-> keys]

PutFuture(items) == [op |-> "put", list |-> items, keys |-> <<>>]

\* What models.sum_account_statistics returns: whether it changed out.
SumChanges(out, items) == sum_account_statistics(out, items) # out

\* The turns of "while True" in update_rolling_stats the time allows at most.
MaxPasses == 2

\* The body of "for a_key in account_keys" for one account.
RollAccount(user, j) ==
    LET key == <<AccountKey(user), TaskRolling>>
        valid_days == GetDays(user, WindowDays(j.day, 0))
        rolling == sum_account_statistics(NewMulti(user, TaskRolling),
                                          valid_days)
        counted == [j EXCEPT !.accounts = @ + 1]
        to_delete == Append(j.to_delete, key)
        items == Append(j.items, [key |-> key, item |-> rolling])
    IN  IF valid_days = <<>>
        THEN IF key \notin DOMAIN multi_db
             THEN counted
             ELSE IF Len(to_delete) = chunk_size
             THEN [counted EXCEPT !.to_delete = <<>>,
                                  !.futures = Append(@, DeleteFuture(to_delete))]
             ELSE [counted EXCEPT !.to_delete = to_delete]
        ELSE IF ~SumChanges(NewMulti(user, TaskRolling), valid_days)
        THEN counted
        ELSE IF Len(items) = chunk_size
        THEN [counted EXCEPT !.items = <<>>,
                             !.futures = Append(@, PutFuture(items))]
        ELSE [counted EXCEPT !.items = items]

RECURSIVE RollAccounts(_, _)
RollAccounts(account_keys, j) ==
    IF account_keys = <<>> THEN j
    ELSE RollAccounts(Tail(account_keys), RollAccount(Head(account_keys), j))

\* The call of update_rolling_stats(cursor, reference_day).
RollingBegin(cursor, reference_day) ==
    /\ job.pc = "idle"
    /\ job' = [IdleJob EXCEPT !.pc = "fetch", !.kind = "30",
                              !.day = reference_day, !.today = utcnow,
                              !.start_cursor = cursor, !.cursor = Unbound]
    /\ UNCHANGED <<mergeVars, quarterVars, boardVars, dailyVars, callVars,
                   chainVars, account_db, multi_db, utcnow, modified_db>>

\* One turn of "while True": the page is fetched from the cursor of the
\* call, which the loop never moves, and its accounts are handled.  The
\* loop ends on an empty page, after MaxPasses turns at the latest when the
\* 300 seconds are over, or when 1000 accounts were counted.
RollingPass(more) ==
    /\ job.pc = "fetch"
    /\ job.kind = "30"
    /\ LET account_keys == Page(AccountKeys, job.start_cursor)
           rolled == RollAccounts(account_keys, job)
           stop == \/ ~more
                   \/ rolled.accounts = 1000
                   \/ job.passes + 1 >= MaxPasses
       IN  job' = IF account_keys = <<>>
                  THEN [job EXCEPT !.pc = "flush", !.cursor = 0]
                  ELSE [rolled EXCEPT
                           !.pc = IF stop THEN "flush" ELSE "fetch",
                           !.passes = @ + 1,
                           !.cursor = job.start_cursor + Len(account_keys)]
    /\ UNCHANGED <<mergeVars, quarterVars, boardVars, dailyVars, callVars,
                   chainVars, account_db, multi_db, utcnow, modified_db>>

\* After the loop: the put of the items and the delete of the keys left.
RollingFlush ==
    /\ job.pc = "flush"
    /\ job' = [job EXCEPT
                  !.pc = "wait",
                  !.items = <<>>,
                  !.to_delete = <<>>,
                  !.futures =
                      @ \o (IF job.items # <<>>
                            THEN <<PutFuture(job.items)>> ELSE <<>>)
                        \o (IF job.to_delete # <<>>
                            THEN <<DeleteFuture(job.to_delete)>> ELSE <<>>)]
    /\ UNCHANGED <<mergeVars, quarterVars, boardVars, dailyVars, callVars,
                   chainVars, account_db, multi_db, utcnow, modified_db>>

\* The summaries stored once the datastore has written the list, each
\* stamped with the day of the put.
RECURSIVE PutSummaries(_, _, _)
PutSummaries(store, items, day) ==
    IF items = <<>>
    THEN store
    ELSE PutSummaries(Put(store, Head(items).key,
                          [item |-> Head(items).item, modified |-> day]),
                      Tail(items), day)

\* The store, were a delete_multi_async never written.
DeleteSummariesNever(store, keys) == store

DeleteSummaries(store, keys) ==
    [k \in DOMAIN store \ {keys[i] : i \in 1..Len(keys)} |-> store[k]]

\* The datastore does one put_multi_async or delete_multi_async of the job.
JobFutureDone(i) ==
    /\ i \in 1..Len(job.futures)
    /\ multi_db' = IF job.futures[i].op = "put"
                   THEN PutSummaries(multi_db, job.futures[i].list, utcnow)
                   ELSE DeleteSummaries(multi_db, job.futures[i].keys)
    /\ job' = [job EXCEPT !.futures = Without(@, i)]
    /\ UNCHANGED <<mergeVars, quarterVars, boardVars, dailyVars, callVars,
                   chainVars, account_db, utcnow, modified_db>>

\* ndb.Future.wait_all(futures) returns: status 200.
JobWaitAll ==
    /\ job.pc = "wait"
    /\ job.futures = <<>>
    /\ job' = [job EXCEPT !.pc = "done", !.result = 200]
    /\ UNCHANGED <<mergeVars, quarterVars, boardVars, dailyVars, callVars,
                   chainVars, account_db, multi_db, utcnow, modified_db>>

\* db.Timeout or DeadlineExceededError in the try block: status 500.  What
\* was handed to the datastore is not waited for.
JobTimeout ==
    /\ job.pc \in {"fetch", "flush", "wait"}
    /\ job' = [job EXCEPT !.pc = "done", !.result = 500]
    /\ UNCHANGED <<mergeVars, quarterVars, boardVars, dailyVars, callVars,
                   chainVars, account_db, multi_db, utcnow, modified_db>>

\* key.id().rsplit("-", 1)[0]: the name up to its last dash.
RECURSIVE LastDash(_, _)
LastDash(str, i) ==
    IF i = 0 THEN 0 ELSE IF str[i] = "-" THEN i ELSE LastDash(str, i - 1)

MonthName(day_name) ==
    IF LastDash(day_name, Len(day_name)) = 0
    THEN day_name
    ELSE SubSeq(day_name, 1, LastDash(day_name, Len(day_name)) - 1)

\* The keys of the days of the model, in key order.
AllDayKeys ==
    [n \in 1..(Len(People) * 31) |->
        <<AccountKey(People[((n - 1) \div 31) + 1]),
          DateStr(((n - 1) % 31) + 1)>>]

\* AccountStatsDay.query(AccountStatsDay.modified >= day_to_process), keys
\* only: in the order of modified, then of the key.
RECURSIVE QueryModified(_, _)
QueryModified(day_to_process, upto) ==
    IF day_to_process > upto THEN <<>>
    ELSE LET Stamp(k) == k \in DOMAIN modified_db
                            /\ k \in DOMAIN stats
                            /\ modified_db[k] = day_to_process
         IN  SelectSeq(AllDayKeys, Stamp)
                 \o QueryModified(day_to_process + 1, upto)

\* The days of the month that exist, "days".
RECURSIVE MonthDays(_, _, _, _)
MonthDays(user, month_name, i, days_in_month) ==
    IF i > days_in_month THEN <<>>
    ELSE LET key == <<AccountKey(user), month_name \o <<"-">> \o Format02d(i)>>
         IN  (IF key \in DOMAIN stats THEN <<stats[key]>> ELSE <<>>)
                 \o MonthDays(user, month_name, i + 1, days_in_month)

\* The body of the loop, were every summary that exists skipped.
RebuildMonthOnlyNew(user, month_name, j) ==
    LET key == <<AccountKey(user), month_name>>
        monthly == NewMulti(user, month_name)
        parts == SplitDash(month_name, <<>>, <<>>)
        days == MonthDays(user, month_name, 1,
                          DaysInMonth(ParseInt(parts[1]), ParseInt(parts[2])))
    IN  IF key \in DOMAIN multi_db
        THEN j
        ELSE IF ~SumChanges(monthly, days)
        THEN j
        ELSE [j EXCEPT !.futures =
                 Append(@, PutFuture(<<[key |-> key,
                                        item |-> sum_account_statistics(
                                                     monthly, days)]>>))]

\* The body of "for month_name, account_id in batch" for one pair.
RebuildMonth(user, month_name, j) ==
    LET key == <<AccountKey(user), month_name>>
        monthly == IF key \in DOMAIN multi_db
                   THEN multi_db[key].item
                   ELSE NewMulti(user, month_name)
        parts == SplitDash(month_name, <<>>, <<>>)
        days == MonthDays(user, month_name, 1,
                          DaysInMonth(ParseInt(parts[1]), ParseInt(parts[2])))
    IN  IF key \in DOMAIN multi_db /\ multi_db[key].modified = j.today
        THEN j
        ELSE IF ~SumChanges(monthly, days)
        THEN j
        ELSE [j EXCEPT !.futures =
                 Append(@, PutFuture(<<[key |-> key,
                                        item |-> sum_account_statistics(
                                                     monthly, days)]>>))]

\* "for key in day_stats_keys" and the loop on the batch, key by key: a
\* pair of months_to_regenerate is not handled again.
RECURSIVE RebuildMonths(_, _)
RebuildMonths(day_stats_keys, j) ==
    IF day_stats_keys = <<>> THEN j
    ELSE LET key == Head(day_stats_keys)
             lookup_key == <<MonthName(key[2]), key[1][2]>>
         IN  RebuildMonths(
                 Tail(day_stats_keys),
                 IF lookup_key \in j.seen
                 THEN j
                 ELSE RebuildMonth(key[1][2], MonthName(key[2]),
                                   [j EXCEPT !.seen = @ \cup {lookup_key}]))

\* The call of update_monthly_stats(cursor, day_to_process).
MonthlyBegin(cursor, day_to_process) ==
    /\ job.pc = "idle"
    /\ job' = [IdleJob EXCEPT !.pc = "fetch", !.kind = "monthly",
                              !.day = day_to_process, !.today = utcnow,
                              !.start_cursor = cursor, !.cursor = cursor]
    /\ UNCHANGED <<mergeVars, quarterVars, boardVars, dailyVars, callVars,
                   chainVars, account_db, multi_db, utcnow, modified_db>>

\* One turn of "while True": the next page of the query and its batch.  The
\* loop ends on an empty page, or when the 400 seconds are over.
MonthlyPage(more) ==
    /\ job.pc = "fetch"
    /\ job.kind = "monthly"
    /\ LET day_stats_keys == Page(QueryModified(job.day, MaxDay + 1),
                                  job.cursor)
           rebuilt == RebuildMonths(day_stats_keys, job)
       IN  job' = IF day_stats_keys = <<>>
                  THEN [job EXCEPT !.pc = "wait", !.cursor = 0]
                  ELSE [rebuilt EXCEPT
                           !.pc = IF more THEN "fetch" ELSE "wait",
                           !.passes = @ + 1,
                           !.cursor = job.cursor + Len(day_stats_keys)]
    /\ UNCHANGED <<mergeVars, quarterVars, boardVars, dailyVars, callVars,
                   chainVars, account_db, multi_db, utcnow, modified_db>>

-----------------------------------------------------------------------------
(* The update-stats queue and task_update_stats.  A request is the         *)
(* parameters of the POST; "missing" names the parameters it lacks and     *)
(* "tries" counts the responses with an error it has had.  The queue runs  *)
(* one request at a time and delivers a request again after an error.      *)

\* The deliveries of one request the queue is followed for.
MaxTries == 2

Request(tasks, date, cursor) ==
    [tasks |-> json_dumps(tasks), date |-> date, cursor |-> cursor,
     missing |-> {}, tries |-> 0]

\* update_daily_stats, update_rolling_stats, update_monthly_stats.
Callees == {"daily", "30", "monthly"}

\* The day of January of a date; day 0 is the last day of December.
DayOfJanuary(date) ==
    IF date.year = 2010 /\ date.month = 1 THEN date.day ELSE 0

\* The response of task_update_stats, as the queue sees it and the log
\* shows it: the request, the task run, the status, the cursor the task
\* returned, the request added to the queue, the keys of the
\* AccountStatsDay entities stored by then and the day each
\* AccountStatsMulti entity stored by then was modified.
Response(request, task, status, cursor, successor) ==
    [request |-> [request EXCEPT !.tries = 0], task |-> task,
     status |-> status, cursor |-> cursor, successor |-> successor,
     stored |-> DOMAIN stats,
     summaries |-> [k \in DOMAIN multi_db |-> multi_db[k].modified]]

\* The queue after the response, were a request answered with an error
\* taken for done.
RequeuedNever(request, status, successor) == successor

\* The queue after the response: a request answered with 200 is done, one
\* answered with an error is delivered again.
Requeued(request, status, successor) ==
    (IF status = 200
     THEN <<>>
     ELSE <<[request EXCEPT !.tries = @ + 1]>>) \o successor

\* The request added to the queue, were the status of the task not looked
\* at.
SuccessorWhateverStatus(request, status, tasks, cursor) ==
    IF tasks # <<>>
    THEN <<[tasks |-> json_dumps(tasks), date |-> request.date,
            cursor |-> urlsafe(cursor),
            missing |-> request.missing \ {"tasks", "cursor"}, tries |-> 0]>>
    ELSE <<>>

\* "if out.status_code == 200 and tasks": the request added to the queue.
Successor(request, status, tasks, cursor) ==
    IF status = 200 /\ tasks # <<>>
    THEN <<[tasks |-> json_dumps(tasks), date |-> request.date,
            cursor |-> urlsafe(cursor),
            missing |-> request.missing \ {"tasks", "cursor"}, tries |-> 0]>>
    ELSE <<>>

\* What task_update_stats does with a request before it calls a task:
\* "fail" for an exception, "done" for a response without a call, or the
\* function to call.
Dispatched(request) ==
    LET tasks == json_loads(request.tasks)
        task == Head(tasks)
        day == strptime(request.date)
    IN  IF "tasks" \in request.missing
        THEN "fail"
        ELSE IF tasks = <<>>
        THEN "done"
        ELSE IF CountChar(task, "-") = 2
        THEN IF strptime(task).ok THEN "daily" ELSE "fail"
        ELSE IF task = TaskMonthly
        THEN IF "date" \notin request.missing /\ day.ok
             THEN "monthly" ELSE "fail"
        ELSE IF task = TaskRolling
        THEN IF "date" \notin request.missing /\ day.ok
             THEN "30" ELSE "fail"
        ELSE "done"

\* task_update_stats up to the call of the task, and to its end when it
\* calls none: the request is taken from the queue; "Nothing to execute!?"
\* and "Unknown task" are answered with 200, an exception with 500.
Dispatch(i) ==
    /\ handling.pc = "idle"
    /\ i \in 1..Len(queue)
    /\ queue[i].tries < MaxTries
    /\ LET request == queue[i]
           others == Without(queue, i)
           to == Dispatched(request)
           tasks == json_loads(request.tasks)
           rest == IF tasks = <<>> THEN <<>> ELSE Tail(tasks)
           task == IF tasks = <<>> THEN <<>> ELSE Head(tasks)
           successor == Successor(request, 200, rest, 0)
       IN  CASE to = "fail" ->
                    /\ queue' = others \o Requeued(request, 500, <<>>)
                    /\ history' = Append(history,
                                         Response(request,
                                                  IF "tasks" \in request.missing
                                                  THEN <<>> ELSE task,
                                                  500, 0, <<>>))
                    /\ UNCHANGED handling
             [] to = "done" ->
                    /\ queue' = others \o Requeued(request, 200, successor)
                    /\ history' = Append(history,
                                         Response(request, task, 200, 0,
                                                  successor))
                    /\ UNCHANGED handling
             [] OTHER ->
                    /\ queue' = others
                    /\ handling' = [pc |-> to, request |-> request,
                                    tasks |-> rest, task |-> task]
                    /\ UNCHANGED history
    /\ UNCHANGED <<mergeVars, quarterVars, boardVars, dailyVars, callVars,
                   multiVars, utcnow, modified_db>>

\* "out, cursor = update_daily_stats(cursor, strptime(task))".
CallDaily ==
    /\ handling.pc = "daily"
    /\ Begin(1, DayOfJanuary(strptime(handling.task)))

\* "out, cursor = update_rolling_stats(cursor, yesterday)".
CallRolling ==
    /\ handling.pc = "30"
    /\ RollingBegin(Cursor(handling.request.cursor),
                    DayOfJanuary(strptime(handling.request.date)) - 1)

\* "out, cursor = update_monthly_stats(cursor, day)".
CallMonthly ==
    /\ handling.pc = "monthly"
    /\ MonthlyBegin(Cursor(handling.request.cursor),
                    DayOfJanuary(strptime(handling.request.date)))

\* task_update_stats from the return of the task to its response: a task
\* that returned a cursor is put back first in the list, and the list left
\* is added to the queue when the status is 200.  update_daily_stats always
\* returns "" for its cursor; update_rolling_stats that fails before it has
\* fetched a page has no next_cursor to return and raises.
Respond ==
    /\ handling.pc \in Callees
    /\ IF handling.pc = "daily" THEN runs[1].pc = "done" ELSE job.pc = "done"
    /\ LET request == handling.request
           raised == handling.pc = "30" /\ job.cursor = Unbound
           status == IF handling.pc = "daily" THEN runs[1].result
                     ELSE IF raised THEN 500 ELSE job.result
           cursor == IF handling.pc = "daily" \/ raised THEN 0 ELSE job.cursor
           tasks == IF cursor # 0
                    THEN <<handling.task>> \o handling.tasks
                    ELSE handling.tasks
           successor == Successor(request, status, tasks, cursor)
       IN  /\ queue' = queue \o Requeued(request, status, successor)
           /\ history' = Append(history,
                                Response(request, handling.task, status,
                                         cursor, successor))
    /\ handling' = NotHandling
    /\ runs' = IF handling.pc = "daily"
               THEN [runs EXCEPT ![1] = IdleRun] ELSE runs
    /\ job' = IF handling.pc = "daily" THEN job ELSE IdleJob
    /\ UNCHANGED <<mergeVars, quarterVars, boardVars, issue_db, message_db,
                   callVars, account_db, multi_db, utcnow, modified_db>>

\* cron_update_yesterday_stats: the chain of the three tasks is added to
\* the queue.
cron_update_yesterday_stats ==
    /\ queue' = Append(queue,
                       Request(<<DateStr(utcnow - 1), TaskRolling,
                                 TaskMonthly>>, DateStr(utcnow), <<>>))
    /\ UNCHANGED <<mergeVars, quarterVars, boardVars, dailyVars, callVars,
                   handling, history, multiVars, utcnow, modified_db>>

\* Midnight passes.
NextDay ==
    /\ utcnow <= MaxDay
    /\ utcnow' = utcnow + 1
    /\ UNCHANGED <<mergeVars, quarterVars, boardVars, dailyVars, callVars,
                   chainVars, multiVars, modified_db>>

-----------------------------------------------------------------------------
(* The chain of the daily trigger, and the requests with parameters that   *)
(* task_update_stats cannot use, over the issue of SmallIssues.            *)

\* A request and a reply of the day after, and a reply without a request.
ChainThreads ==
    {<<[sender |-> Owner, recipients |-> {Reviewer}, text |-> ""],
       [sender |-> Reviewer, recipients |-> {Owner}, text |-> "lgtm"]>>,
     <<[sender |-> Reviewer, recipients |-> {Owner}, text |-> ""]>>}

\* The rolling summary of an account, as an earlier run stored it on the
\* first day.
StoredRolling(user) ==
    [item |-> [NewMulti(user, TaskRolling) EXCEPT
                  !.issues = <<1>>, !.latencies = <<-1>>, !.lgtms = <<0>>,
                  !.review_types = <<IGNORED>>],
     modified |-> 1]

RollingOf(users) ==
    [k \in {<<AccountKey(u), TaskRolling>> : u \in users} |->
        StoredRolling(k[1][2])]

\* Requests whose parameters are malformed: an unknown task before a known
\* one, a task that looks like a date and is none, no list of tasks, no
\* date, and an empty list.
MalformedRequests ==
    {Request(<<TaskUnknown, TaskRolling>>, DateStr(2), <<>>),
     Request(<<TaskNoDate, TaskRolling>>, DateStr(2), <<>>),
     [Request(<<>>, DateStr(2), <<>>) EXCEPT !.missing = {"tasks"}],
     [Request(<<TaskMonthly>>, <<>>, <<>>) EXCEPT !.missing = {"date"}],
     [Request(<<DateStr(1), TaskRolling>>, <<>>, <<>>)
         EXCEPT !.missing = {"date"}],
     Request(<<>>, DateStr(2), <<>>)}

ChainInit ==
    /\ MergeIdle
    /\ QuarterIdle
    /\ BoardIdle
    /\ CallIdle
    /\ ChainIdle
    /\ issue_db = SmallIssues
    /\ \E posts \in ChainThreads :
           message_db = SmallMessages(posts, [i \in 1..Len(posts) |-> i])
    /\ runs = [r \in Invocations |-> IdleRun]
    /\ \E users \in {{}, {Reviewer, Other}} :
           /\ account_db = users
           /\ multi_db = RollingOf(users \ {Reviewer})
    /\ job = IdleJob
    /\ utcnow \in 2..MaxDay
    /\ modified_db = <<>>

\* The timeouts of the datastore the chain is followed for.
MaxErrors == 1

IsError(response) == response.status = 500

\* The datastore may fail once more.
MayFail == Len(SelectSeq(history, IsError)) < MaxErrors

\* Nothing was added to the queue yet.
QueueUnused == queue = <<>> /\ handling = NotHandling /\ history = <<>>

\* The queue is given a request by something other than the daily trigger.
Post(request) ==
    /\ queue' = Append(queue, request)
    /\ UNCHANGED <<mergeVars, quarterVars, boardVars, dailyVars, callVars,
                   handling, history, multiVars, utcnow, modified_db>>

ChainNext ==
    \/ QueueUnused /\ cron_update_yesterday_stats
    \/ \E request \in MalformedRequests : QueueUnused /\ Post(request)
    \/ \E i \in 1..Len(queue) : Dispatch(i)
    \/ CallDaily
    \/ HandlePacket(1)
    \/ PutLastItems(1)
    \/ \E i \in 1..Len(runs[1].futures) : PutDone(1, i)
    \/ WaitAll(1)
    \/ MayFail /\ Timeout(1)
    \/ CallRolling
    \/ \E more \in BOOLEAN : RollingPass(more)
    \/ RollingFlush
    \/ CallMonthly
    \/ \E more \in BOOLEAN : MonthlyPage(more)
    \/ \E i \in 1..Len(job.futures) : JobFutureDone(i)
    \/ JobWaitAll
    \/ MayFail /\ JobTimeout
    \/ Respond

SpecChain == ChainInit /\ [][ChainNext]_vars

-----------------------------------------------------------------------------
(* The chain and the errors of the datastore.                              *)

\* The task is a day: update_daily_stats is the function called.
IsDayTask(task) == CountChar(task, "-") = 2

\* The request without the count of its deliveries.
Params(request) == [request EXCEPT !.tries = 0]

\* The request waits in the queue or is being handled.
IsPending(request) ==
    \/ \E i \in 1..Len(queue) : Params(queue[i]) = request
    \/ handling.pc # "idle" /\ Params(handling.request) = request

\* update_daily_stats has returned 500 and task_update_stats responds.
DailyFailureAnswered ==
    /\ handling.pc = "daily"
    /\ runs[1].pc = "done"
    /\ runs[1].result = 500
    /\ history' # history

\* C15: when update_daily_stats hits a timeout of the datastore it reports
\* 500; task_update_stats then adds no request to the queue and responds
\* with the error, the queue keeps the request with its task list and the
\* next request handled is the same one, so that no later task of the chain
\* runs before it; and the entities already stored stay stored.
C15_FailedDailyIsRetried ==
    /\ [](\A i \in 1..Len(history) :
             /\ (IsDayTask(history[i].task) /\ history[i].status = 500) =>
                   /\ history[i].successor = <<>>
                   /\ IF i < Len(history)
                      THEN /\ history[i + 1].request = history[i].request
                           /\ history[i + 1].task = history[i].task
                      ELSE IsPending(history[i].request)
             /\ history[i].stored \subseteq DOMAIN stats)
    /\ [][DailyFailureAnswered =>
             /\ history' = Append(history, history'[Len(history')])
             /\ history'[Len(history')].status = 500
             /\ history'[Len(history')].task = handling.task
             /\ history'[Len(history')].request = Params(handling.request)
             /\ queue' = Append(queue, [handling.request EXCEPT !.tries = @ + 1])
             /\ stats' = stats]_vars

\* C15 witness: the daily task failed after an entity was stored, the same
\* request was handled next and succeeded, and only then the rolling task
\* ran.
C15_Witness ==
    /\ Len(history) >= 3
    /\ IsDayTask(history[1].task)
    /\ history[1].status = 500
    /\ history[1].stored # {}
    /\ history[2].request = history[1].request
    /\ history[2].status = 200
    /\ history[3].task = TaskRolling


-----------------------------------------------------------------------------
(* The cursor of update_daily_stats.                                       *)

\* The invocation of update_daily_stats answered by history[i] failed
\* after AccountStatsDay entities had been stored: its scan was past the
\* first message of the day.
FailedPastFirstMessage(i) ==
    /\ IsDayTask(history[i].task)
    /\ history[i].status = 500
    /\ history[i].stored # {}

\* C16: an invocation of update_daily_stats that is retried resumes the
\* scan of the messages from the cursor the invocation before it reached:
\* an invocation that fails after it stored entities returns a cursor, and
\* the request delivered again is the next one handled and starts its scan
\* from that cursor, not from the first message of the day.
C16_RetryResumesFromCursor ==
    \A i \in 1..Len(history) :
        FailedPastFirstMessage(i) =>
            /\ history[i].cursor # 0
            /\ (handling.pc = "daily" /\ i = Len(history)
                  /\ runs[1].pc = "loop") =>
                   Len(runs[1].todo) <
                       Len(yield_people_issue_to_update(runs[1].day))


-----------------------------------------------------------------------------
(* The order of the tasks of the daily trigger.                            *)

\* The requests that were added to the queue so far.
RequestsSeen ==
    {Params(queue[i]) : i \in 1..Len(queue)}
        \cup (IF handling.pc = "idle"
              THEN {} ELSE {Params(handling.request)})
        \cup {history[i].request : i \in 1..Len(history)}

\* The requests are those of a chain the daily trigger started.
Triggered == \E r \in RequestsSeen : Len(json_loads(r.tasks)) = 3

\* The task returned success and no cursor.
Finished(response) == response.status = 200 /\ response.cursor = 0

\* A response to the task before history[i] and handling.
FinishedBefore(i, task_before) ==
    \E j \in 1..(i - 1) : /\ Finished(history[j])
                          /\ IF task_before = "daily"
                             THEN IsDayTask(history[j].task)
                             ELSE history[j].task = task_before

\* The place of a task in the list of the daily trigger.
TaskRank(task) ==
    IF IsDayTask(task) THEN 1 ELSE IF task = TaskRolling THEN 2 ELSE 3

\* C17: the daily trigger adds one request to the queue, with the tasks
\* [yesterday, "30", "monthly"] and the date of today; in its chain the tasks
\* run in that order: the rolling task is called only after the daily task
\* returned 200 and no cursor, the monthly task only after the rolling task
\* did, and the response to the last task adds no request.
C17_ChainRunsInOrder ==
    /\ [](Triggered =>
            /\ \A i \in 1..Len(history) :
                  /\ history[i].task = TaskRolling =>
                         FinishedBefore(i, "daily")
                  /\ history[i].task = TaskMonthly =>
                         FinishedBefore(i, TaskRolling)
                  /\ \A j \in 1..(i - 1) :
                         TaskRank(history[j].task) <= TaskRank(history[i].task)
                  /\ (Finished(history[i]) /\ history[i].task = TaskMonthly)
                         => history[i].successor = <<>>
                  /\ history[i].successor # <<>> =>
                         json_loads(history[i].successor[1].tasks) # <<>>
            /\ handling.pc = "30" =>
                   FinishedBefore(Len(history) + 1, "daily")
            /\ handling.pc = "monthly" =>
                   FinishedBefore(Len(history) + 1, TaskRolling)
            /\ Len(queue) + (IF handling.pc = "idle" THEN 0 ELSE 1) <= 1)
    /\ [][(QueueUnused /\ queue' # queue
             /\ Len(json_loads(queue'[1].tasks)) = 3) =>
            /\ json_loads(queue'[1].tasks) =
                   <<DateStr(utcnow - 1), TaskRolling, TaskMonthly>>
            /\ queue'[1].date = DateStr(utcnow)
            /\ queue'[1].cursor = <<>>
            /\ Len(queue') = 1]_vars

\* The chain ran to its end: the rolling task returned a cursor and was
\* called again, and nothing is left in the queue.
C17_Witness ==
    /\ Len(history) = 4
    /\ IsDayTask(history[1].task) /\ Finished(history[1])
    /\ history[2].task = TaskRolling /\ history[2].status = 200
    /\ history[2].cursor # 0
    /\ history[3].task = TaskRolling /\ Finished(history[3])
    /\ history[4].task = TaskMonthly /\ Finished(history[4])
    /\ queue = <<>>
    /\ handling = NotHandling


-----------------------------------------------------------------------------
(* Requests that task_update_stats cannot use.                             *)

\* The first task of the request, <<>> when it has none.
FirstTask(request) ==
    IF json_loads(request.tasks) = <<>>
    THEN <<>> ELSE Head(json_loads(request.tasks))

\* A field that the request needs is missing: the list of tasks, or the
\* date when the first task is "30" or "monthly".
MissingField(request) ==
    \/ "tasks" \in request.missing
    \/ /\ "date" \in request.missing
       /\ FirstTask(request) \in {TaskRolling, TaskMonthly}

\* The first task of the request is none of "30" and "monthly" and is not
\* taken for a date.
UnknownTask(request) ==
    /\ "tasks" \notin request.missing
    /\ FirstTask(request) \notin {<<>>, TaskRolling, TaskMonthly}
    /\ ~IsDayTask(FirstTask(request))

\* C18: a request with an unknown task name or without a field it needs is
\* answered with 200 and is not delivered again; after an unknown task the
\* tasks left in the list are added to the queue.
C18_MalformedIsAcknowledged ==
    \A i \in 1..Len(history) :
        LET request == history[i].request
        IN  /\ (MissingField(request) \/ UnknownTask(request)) =>
                  /\ history[i].status = 200
                  /\ ~IsPending(request)
            /\ (UnknownTask(request)
                  /\ Len(json_loads(request.tasks)) > 1) =>
                  /\ Len(history[i].successor) = 1
                  /\ json_loads(history[i].successor[1].tasks) =
                         Tail(json_loads(request.tasks))


-----------------------------------------------------------------------------
(* The administrator's trigger and the monthly summaries.  Chains of a     *)
(* daily task and the monthly task are added to the queue by hand, one     *)
(* after the other is over, on the same day or on a later one.             *)

\* The chains the administrator triggers.
MaxChains == 2

\* "if len(set(tasks)) != len(tasks)".
HasDuplicates(tasks) ==
    \E i, j \in 1..Len(tasks) : i # j /\ tasks[i] = tasks[j]

\* A task the view takes as it is: "monthly", "30" or the name of a day.
IsPlainTask(task) ==
    \/ task \in {TaskMonthly, TaskRolling}
    \/ verify_account_statistics_name(task) /\ CountChar(task, "-") = 2

\* The view update_stats for a form with the tasks tasks_to_trigger, none
\* of them the name of a month: the list is added to the queue with the
\* date of today when every task is valid and none is there twice.
update_stats(tasks_to_trigger) ==
    /\ tasks_to_trigger # <<>>
    /\ queue' = IF /\ \A i \in 1..Len(tasks_to_trigger) :
                         IsPlainTask(tasks_to_trigger[i])
                   /\ ~HasDuplicates(tasks_to_trigger)
                THEN Append(queue, Request(tasks_to_trigger, DateStr(utcnow),
                                           <<>>))
                ELSE queue
    /\ UNCHANGED <<mergeVars, quarterVars, boardVars, dailyVars, callVars,
                   handling, history, multiVars, utcnow, modified_db>>

\* The queue is empty and no request is handled.
QueueIdle == queue = <<>> /\ handling = NotHandling

\* The daily tasks that returned 200 so far.
DailyTasksDone ==
    Cardinality({i \in 1..Len(history) :
                    IsDayTask(history[i].task) /\ history[i].status = 200})

\* The days on which a message was sent.
MessageDays == {message_db[i].date.day : i \in 1..Len(message_db)}

\* The datastore has not failed so far.
NotFailedYet == SelectSeq(history, IsError) = <<>>

MonthlyInit ==
    /\ MergeIdle
    /\ QuarterIdle
    /\ BoardIdle
    /\ CallIdle
    /\ ChainIdle
    /\ MultiIdle
    /\ issue_db = SmallIssues
    /\ \E posts \in ChainThreads :
           message_db = SmallMessages(posts, [i \in 1..Len(posts) |-> i])
    /\ runs = [r \in Invocations |-> IdleRun]
    /\ utcnow = 2
    /\ modified_db = <<>>

MonthlyNext ==
    \/ \E d \in MessageDays :
           /\ d < utcnow
           /\ QueueIdle
           /\ DailyTasksDone < MaxChains
           /\ update_stats(<<DateStr(d), TaskMonthly>>)
    \/ QueueIdle /\ NextDay
    \/ \E i \in 1..Len(queue) : Dispatch(i)
    \/ CallDaily
    \/ HandlePacket(1)
    \/ PutLastItems(1)
    \/ \E i \in 1..Len(runs[1].futures) : PutDone(1, i)
    \/ WaitAll(1)
    \/ CallMonthly
    \/ \E more \in BOOLEAN : MonthlyPage(more)
    \/ \E i \in 1..Len(job.futures) : JobFutureDone(i)
    \/ JobWaitAll
    \/ NotFailedYet /\ JobTimeout
    \/ Respond

SpecMonthly == MonthlyInit /\ [][MonthlyNext]_vars


\* update_monthly_stats has returned 200 and no cursor: the chain of the
\* request is over once task_update_stats responds.
MonthlyReturnedDone ==
    /\ handling.pc = "monthly"
    /\ job.pc = "done"
    /\ job.result = 200
    /\ job.cursor = 0

\* The key of the monthly summary of a key of AccountStatsDay.
MonthlyKey(k) == <<k[1], MonthName(k[2])>>

\* The AccountStatsDay entities modified on day_to_process or later.
ModifiedSince(day_to_process) ==
    {k \in DOMAIN stats \cap DOMAIN modified_db :
        modified_db[k] >= day_to_process}

\* The monthly summary of the month and account of k is stored and is the
\* sum of the days of the month the account has now.
IsRebuilt(k) ==
    LET user == k[1][2]
        month_name == MonthName(k[2])
    IN  /\ MonthlyKey(k) \in DOMAIN multi_db
        /\ multi_db[MonthlyKey(k)].item =
               sum_account_statistics(
                   NewMulti(user, month_name),
                   MonthDays(user, month_name, 1, 31))

\* The responses to a daily task that returned 200.
DailyDone ==
    {i \in 1..Len(history) :
        IsDayTask(history[i].task) /\ history[i].status = 200}

\* The summaries as they were when the daily task of the chain that is
\* handled returned.
SummariesBefore ==
    history[CHOOSE i \in DailyDone : \A j \in DailyDone : j <= i].summaries

\* The summary of key was modified on the day of the monthly task before
\* the chain of that task began to run.
FreshBefore(key) ==
    /\ DailyDone # {}
    /\ key \in DOMAIN SummariesBefore
    /\ SummariesBefore[key] = job.today

\* C19 as stated: when the monthly task of the chain of day d has returned
\* 200 and no cursor, the monthly summary of every AccountStatsDay entity
\* modified on d or later is the sum of all the days of its month and
\* account.
C19_ModifiedDaysAreRebuilt ==
    MonthlyReturnedDone =>
        \A k \in ModifiedSince(job.day) : IsRebuilt(k)

\* C19, amended: when the monthly task of the chain of day d has returned
\* 200 and no cursor, the monthly summary of every AccountStatsDay entity
\* modified on d or later is the sum of all the days of its month and
\* account, unless that summary had been modified on the day the task runs
\* before the chain began: such a summary is left as it was.
C19_ModifiedDaysAreRebuiltUnlessFresh ==
    MonthlyReturnedDone =>
        \A k \in ModifiedSince(job.day) :
            \/ IsRebuilt(k)
            \/ /\ FreshBefore(MonthlyKey(k))
               /\ multi_db[MonthlyKey(k)].modified = job.today

\* A chain of a later day is over: a summary that an earlier chain stored
\* on an earlier day was written again and is the sum of the days, and it
\* was not when the chain began.
C19_Witness ==
    /\ MonthlyReturnedDone
    /\ \E k \in ModifiedSince(job.day) :
          /\ IsRebuilt(k)
          /\ DailyDone # {}
          /\ MonthlyKey(k) \in DOMAIN SummariesBefore
          /\ SummariesBefore[MonthlyKey(k)] < job.today
          /\ multi_db[MonthlyKey(k)].modified = job.today


-----------------------------------------------------------------------------
(* The rolling summary of an account without a day in the window.          *)

\* The key of the rolling summary of an account.
RollingKey(user) == <<AccountKey(user), TaskRolling>>

\* The accounts the invocation of update_rolling_stats fetches.
AccountsFetched ==
    LET account_keys == Page(AccountKeys, job.start_cursor)
    IN  {account_keys[i] : i \in 1..Len(account_keys)}

\* The account has no AccountStatsDay in the 30 days that end on the
\* reference day of the invocation.
WindowIsEmpty(user) == GetDays(user, WindowDays(job.day, 0)) = <<>>

\* update_rolling_stats has returned 200.
RollingSucceeded == job.kind = "30" /\ job.pc = "done" /\ job.result = 200

\* C20: update_rolling_stats writes no rolling summary for an account that
\* has no AccountStatsDay in the 30 days ending on the reference day and
\* deletes the one it finds: once the invocation has returned 200, no such
\* account among those it fetched has a rolling summary.
C20_EmptyWindowDeletesRolling ==
    /\ [](RollingSucceeded =>
            \A user \in AccountsFetched :
                WindowIsEmpty(user) => RollingKey(user) \notin DOMAIN multi_db)
    /\ [][job.kind = "30" =>
            \A user \in account_db :
                (WindowIsEmpty(user) /\ RollingKey(user) \notin DOMAIN multi_db)
                    => RollingKey(user) \notin DOMAIN multi_db']_vars

\* The invocation returned 200 and the rolling summary that b@x, who has no
\* day in the window, had when the chain began is gone, while a@x, who has
\* one, has a summary.
C20_Witness ==
    /\ RollingSucceeded
    /\ Other \in AccountsFetched
    /\ WindowIsEmpty(Other)
    /\ history # <<>>
    /\ RollingKey(Other) \in DOMAIN history[1].summaries
    /\ RollingKey(Other) \notin DOMAIN multi_db
    /\ RollingKey(Reviewer) \in DOMAIN multi_db


-----------------------------------------------------------------------------
(* task_refresh_all_stats_score and its queue.  The store is the set       *)
(* entities; an entity is found by its class, account and name, and a      *)
(* query without an order returns the entities of a class in key order.     *)
(* A cursor is the place in that order of the last entity a page returned.  *)

\* "fetch_page(20, start_cursor=cursor)".
refresh_page_size == 20

\* The names of the entities of an account, in key order.
RefreshNames(cls) ==
    IF cls = "Day"
    THEN <<DateStr(1), DateStr(2), DateStr(3)>>
    ELSE <<<<"2", "0", "1", "0", "-", "0", "1">>,
           <<"2", "0", "1", "0", "-", "0", "2">>, TaskRolling>>

\* The entities of a store that holds more than a task may have in
\* flight under the limit of update_daily_stats.
BacklogSize == max_futures + refresh_page_size

\* The accounts of the entities, in key order: those of ManyOwners first.
RefreshOwners ==
    [i \in 1..((BacklogSize \div 3) + 1) |-> FormatD(i - 1) \o <<"@", "x">>]

\* The place of an entity in the key order of its class.
KeyRank(e) ==
    (Rank(RefreshOwners, e.user) - 1) * 3 + Rank(RefreshNames(e.cls), e.name)

\* The entity of a class at place n: its score is the one compute_score
\* gives when n is even and an outdated one when n is odd.
RefreshEntity(cls, n) ==
    LET lists == [issues |-> <<n>>, latencies |-> <<n>>, lgtms |-> <<0>>,
                  review_types |-> <<NORMAL>>]
    IN  [cls |-> cls, user |-> RefreshOwners[((n - 1) \div 3) + 1],
         name |-> RefreshNames(cls)[((n - 1) % 3) + 1],
         score |-> IF n % 2 = 0 THEN compute_score(lists) ELSE 0,
         issues |-> lists.issues, latencies |-> lists.latencies,
         lgtms |-> lists.lgtms, review_types |-> lists.review_types]

\* The key of an entity.
KeyOf(e) == <<e.cls, e.user, e.name>>

\* cls.query(): the entities of the class after the cursor, in key order.
QueryAfter(store, cls, cursor) ==
    LET ranked == {<<KeyRank(e), e>> : e \in {x \in store : x.cls = cls}}
        found == {p \in ranked : p[1] > cursor}
        ranks == {p[1] : p \in found}
        Stored(n) == n \in ranks
        places == SelectSeq([n \in 1..(3 * Len(RefreshOwners)) |-> n], Stored)
    IN  [i \in 1..Len(places) |->
            (CHOOSE p \in found : p[1] = places[i])[2]]

\* The parameters of a request of task_refresh_all_stats_score; "" and <<>>
\* are a parameter that is absent.
RefreshRequest(cls, cursor, destroy, task_count) ==
    [cls |-> cls, cursor |-> cursor, destroy |-> destroy,
     task_count |-> task_count, tries |-> 0]

\* The view update_stats for the one task "refresh" or "destroy".
TriggerRefresh(task) ==
    /\ task \in {"refresh", "destroy"}
    /\ queue' = Append(queue,
                       RefreshRequest("", <<>>,
                                      FormatD(IF task = "destroy"
                                              THEN 1 ELSE 0),
                                      <<>>))
    /\ UNCHANGED <<mergeVars, quarterVars, boardVars, dailyVars, callVars,
                   handling, history, multiVars, utcnow, modified_db>>

\* task_refresh_all_stats_score up to its loop: the parameters are read.
RefreshBegin(i) ==
    /\ job.pc = "idle"
    /\ i \in 1..Len(queue)
    /\ queue[i].tries < MaxTries
    /\ LET request == queue[i]
       IN  job' = [pc |-> "loop", kind |-> "refresh", request |-> request,
                   cls_name |-> IF request.cls = ""
                                THEN "Day" ELSE request.cls,
                   destroy |-> ParseInt(request.destroy),
                   cursor |-> Cursor(request.cursor),
                   task_count |-> IF request.task_count = <<>>
                                  THEN 0 ELSE ParseInt(request.task_count),
                   more |-> TRUE, items |-> <<>>, futures |-> <<>>,
                   issued |-> 0, result |-> 0]
    /\ queue' = Without(queue, i)
    /\ UNCHANGED <<mergeVars, quarterVars, boardVars, dailyVars, callVars,
                   handling, history, account_db, multi_db, utcnow,
                   modified_db>>

\* "for i in batch" when destroy is 0: an entity whose score is not the one
\* compute_score gives is put, chunk_size entities at a time.
RECURSIVE RefreshBatch(_, _)
RefreshBatch(batch, j) ==
    IF batch = <<>> THEN j
    ELSE LET i == Head(batch)
             score == compute_score(i)
             items == Append(j.items, [i EXCEPT !.score = score])
         IN  RefreshBatch(
                 Tail(batch),
                 IF i.score = score
                 THEN j
                 ELSE IF Len(items) = chunk_size
                 THEN [j EXCEPT !.items = <<>>,
                                !.futures = Append(@, PutFuture(items)),
                                !.issued = @ + 1]
                 ELSE [j EXCEPT !.items = items])

\* One turn of "while more": a page is fetched from the cursor and its
\* entities are deleted or refreshed; late is "time.time() - start >=
\* timeout".  A page that takes the last entity may still say there is more;
\* an empty page does not, and has no cursor.
RefreshPage(more, late) ==
    /\ job.pc = "loop"
    /\ job.kind = "refresh"
    /\ LET results == QueryAfter(entities, job.cls_name, job.cursor)
           batch == SubSeq(results, 1, Min(refresh_page_size, Len(results)))
           cursor == IF batch = <<>> THEN 0 ELSE KeyRank(batch[Len(batch)])
           handled ==
               IF job.destroy # 0
               THEN [job EXCEPT
                        !.futures = Append(@, DeleteFuture(
                                        [n \in 1..Len(batch) |->
                                            KeyOf(batch[n])])),
                        !.issued = @ + 1]
               ELSE RefreshBatch(batch, job)
       IN  /\ Len(results) > refresh_page_size => more
           /\ batch = <<>> => ~more
           /\ job' = [handled EXCEPT
                         !.cursor = cursor, !.more = more,
                         !.pc = IF more /\ ~late THEN "loop" ELSE "flush"]
    /\ UNCHANGED <<mergeVars, quarterVars, boardVars, dailyVars, callVars,
                   chainVars, account_db, multi_db, utcnow, modified_db>>

\* "if items: futures.extend(ndb.put_multi_async(items))".
RefreshFlush ==
    /\ job.pc = "flush"
    /\ job.kind = "refresh"
    /\ job' = [job EXCEPT
                  !.pc = "wait", !.items = <<>>,
                  !.futures = IF job.items = <<>>
                              THEN @ ELSE Append(@, PutFuture(job.items)),
                  !.issued = IF job.items = <<>> THEN @ ELSE @ + 1]
    /\ UNCHANGED <<mergeVars, quarterVars, boardVars, dailyVars, callVars,
                   chainVars, account_db, multi_db, utcnow, modified_db>>

\* The store, were a delete of the task never done.
WrittenWithoutDelete(store, future) ==
    IF future.op = "put"
    THEN {e \in store : \A n \in 1..Len(future.list) :
                            KeyOf(e) # KeyOf(future.list[n])}
             \cup {future.list[n] : n \in 1..Len(future.list)}
    ELSE store

\* The store once the datastore has done a put or a delete of the task.
Written(store, future) ==
    LET keys == {KeyOf(future.list[n]) : n \in 1..Len(future.list)}
                    \cup {future.keys[n] : n \in 1..Len(future.keys)}
        kept == {e \in store : KeyOf(e) \notin keys}
    IN  IF future.op = "put"
        THEN kept \cup {future.list[n] : n \in 1..Len(future.list)}
        ELSE kept

\* The datastore does one put_multi_async or delete_multi_async of the task.
RefreshFutureDone(i) ==
    /\ job.kind = "refresh"
    /\ i \in 1..Len(job.futures)
    /\ entities' = Written(entities, job.futures[i])
    /\ job' = [job EXCEPT !.futures = Without(@, i)]
    /\ UNCHANGED <<mergeVars, quarterVars, limit, data, view, dailyVars,
                   callVars, chainVars, account_db, multi_db, utcnow,
                   modified_db>>

\* The response of task_refresh_all_stats_score, as the log shows it.
RefreshResponse(j, status, successor) ==
    [request |-> [j.request EXCEPT !.tries = 0], cls |-> j.cls_name,
     task_count |-> j.task_count, status |-> status, cursor |-> j.cursor,
     more |-> j.more, successor |-> successor]

\* The request added, were the cursor kept when the class changes.
RefreshSuccessorKeepingCursor(j) ==
    LET moves == ~j.more /\ j.cls_name = "Day"
        cls_name == IF moves THEN "Multi" ELSE j.cls_name
    IN  IF moves \/ j.more
        THEN <<RefreshRequest(cls_name, urlsafe(j.cursor),
                              FormatD(j.destroy),
                              FormatD(j.task_count + 1))>>
        ELSE <<>>

\* The request the task adds to the queue after wait_all: for the class
\* "Multi" from a new cursor when "Day" has no more, for the same class
\* from the cursor when there is more, none otherwise.
RefreshSuccessor(j) ==
    LET moves == ~j.more /\ j.cls_name = "Day"
        cls_name == IF moves THEN "Multi" ELSE j.cls_name
        cursor == IF moves THEN 0 ELSE j.cursor
    IN  IF moves \/ j.more
        THEN <<RefreshRequest(cls_name, urlsafe(cursor), FormatD(j.destroy),
                              FormatD(j.task_count + 1))>>
        ELSE <<>>

\* ndb.Future.wait_all(futures) returns: the next request is added and the
\* response is 200.
RefreshWaitAll ==
    /\ job.pc = "wait"
    /\ job.kind = "refresh"
    /\ job.futures = <<>>
    /\ queue' = queue \o Requeued(job.request, 200, RefreshSuccessor(job))
    /\ history' = Append(history,
                         RefreshResponse(job, 200, RefreshSuccessor(job)))
    /\ job' = IdleJob
    /\ UNCHANGED <<mergeVars, quarterVars, boardVars, dailyVars, callVars,
                   handling, account_db, multi_db, utcnow, modified_db>>

\* db.Timeout or DeadlineExceededError in the try block: the response is
\* 500 and nothing is added; the queue delivers the request again.
RefreshTimeout ==
    /\ job.pc \in {"loop", "flush", "wait"}
    /\ job.kind = "refresh"
    /\ queue' = queue \o Requeued(job.request, 500, <<>>)
    /\ history' = Append(history, RefreshResponse(job, 500, <<>>))
    /\ job' = IdleJob
    /\ UNCHANGED <<mergeVars, quarterVars, boardVars, dailyVars, callVars,
                   handling, account_db, multi_db, utcnow, modified_db>>

\* The most entities of a class in the store.
MaxStored == 21

RefreshInit ==
    /\ MergeIdle
    /\ QuarterIdle
    /\ DailyIdle
    /\ LaterIdle
    /\ limit = 0
    /\ data = NotCalled
    /\ view = [status |-> 0, tops |-> <<>>, shame |-> <<>>]
    /\ \E sizes \in {<<0, 0>>, <<1, MaxStored>>, <<MaxStored, 1>>} :
          entities = {RefreshEntity("Day", n) : n \in 1..sizes[1]}
                        \cup {RefreshEntity("Multi", n) : n \in 1..sizes[2]}

RefreshNext ==
    \/ \E task \in {"refresh", "destroy"} :
           QueueUnused /\ job = IdleJob /\ TriggerRefresh(task)
    \/ \E i \in 1..Len(queue) : RefreshBegin(i)
    \/ \E more, late \in BOOLEAN : RefreshPage(more, late)
    \/ RefreshFlush
    \/ \E i \in 1..Len(job.futures) : RefreshFutureDone(i)
    \/ RefreshWaitAll
    \/ NotFailedYet /\ RefreshTimeout

SpecRefresh == RefreshInit /\ [][RefreshNext]_vars


-----------------------------------------------------------------------------
(* The chain of task_refresh_all_stats_score.                              *)

\* The request of history[i] was answered with 200.
RefreshDone(i) == history[i].status = 200

\* The class "Day" was left: a response for "Day" with 200 and no more.
DayExhausted ==
    \E i \in 1..Len(history) :
        RefreshDone(i) /\ history[i].cls = "Day" /\ ~history[i].more

\* C21: the invocations of task_refresh_all_stats_score of a chain walk the
\* class "Day" first and then "Multi", from a new cursor, and never go back
\* to "Day": the first request has no class and no cursor; a response for
\* "Day" with no more adds a request for "Multi" without a cursor, by when
\* every "Day" entity had its turn; a response with more adds one for the
\* same class from the cursor; a response for "Multi" with no more adds
\* none and the queue is then empty; each request added carries task_count
\* plus one, and it is the next request handled.
C21_RefreshWalksDayThenMulti ==
    /\ \A i \in 1..Len(history) :
          LET r == history[i]
              next == r.successor[1]
          IN  /\ i = 1 => r.cls = "Day" /\ r.request.cursor = <<>>
                             /\ r.task_count = 0
              /\ \A k \in 1..(i - 1) :
                     history[k].cls = "Multi" => r.cls = "Multi"
              /\ ~RefreshDone(i) =>
                     /\ r.successor = <<>>
                     /\ i < Len(history) =>
                            history[i + 1].request = r.request
              /\ RefreshDone(i) =>
                     /\ r.successor = <<>> <=> (r.cls = "Multi" /\ ~r.more)
                     /\ Len(r.successor) <= 1
                     /\ r.successor # <<>> =>
                            /\ ParseInt(next.task_count) = r.task_count + 1
                            /\ next.destroy = r.request.destroy
                            /\ next.cls = IF r.more THEN r.cls ELSE "Multi"
                            /\ Cursor(next.cursor) =
                                   IF r.more THEN r.cursor ELSE 0
                            /\ r.more => r.cursor > 0
                            /\ i < Len(history) =>
                                   history[i + 1].request = next
                     /\ (r.successor = <<>> /\ i = Len(history)) =>
                            queue = <<>>
    /\ DayExhausted =>
          \A e \in entities :
              e.cls = "Day" => e.score = compute_score(e)
    /\ Len(queue) + (IF job.pc = "idle" THEN 0 ELSE 1) <= 1

\* A chain that ended: "Day" took two invocations, the second from the
\* cursor of the first, and "Multi" was walked from its start.
C21_Witness ==
    /\ Len(history) >= 3
    /\ \A i \in 1..Len(history) : RefreshDone(i)
    /\ history[1].cls = "Day" /\ history[1].more /\ history[1].cursor > 0
    /\ history[2].cls = "Day" /\ ~history[2].more
    /\ Cursor(history[2].request.cursor) = history[1].cursor
    /\ history[3].cls = "Multi" /\ history[3].request.cursor = <<>>
    /\ history[Len(history)].successor = <<>>
    /\ queue = <<>>
    /\ job = IdleJob


-----------------------------------------------------------------------------
(* The mode "destroy" of task_refresh_all_stats_score.                     *)

\* The chain was started with destroy = 1: its first request says so.
IsDestroyChain ==
    \/ \E i \in 1..Len(queue) : queue[i].destroy = <<"1">>
    \/ job.pc # "idle" /\ job.request.destroy = <<"1">>
    \/ history # <<>> /\ history[1].request.destroy = <<"1">>

\* The chain is over: the last response is for "Multi", with 200 and no
\* more.
RefreshChainOver ==
    /\ history # <<>>
    /\ RefreshDone(Len(history))
    /\ history[Len(history)].cls = "Multi"
    /\ ~history[Len(history)].more

\* C22: in a chain of task_refresh_all_stats_score started with destroy = 1
\* every invocation has destroy = 1, hands the datastore deletes only and
\* keeps no entity to put, so that the store never gains or changes an
\* entity; when the chain is over no entity of "Day" or "Multi" is left.
C22_DestroyOnlyDeletes ==
    /\ [](IsDestroyChain =>
            /\ \A i \in 1..Len(history) :
                   history[i].request.destroy = <<"1">>
            /\ \A i \in 1..Len(queue) : queue[i].destroy = <<"1">>
            /\ job.pc # "idle" =>
                   /\ job.destroy = 1
                   /\ job.items = <<>>
                   /\ \A n \in 1..Len(job.futures) :
                          job.futures[n].op = "delete"
            /\ RefreshChainOver => entities = {})
    /\ [][IsDestroyChain => entities' \subseteq entities]_vars

\* A chain with destroy = 1 is over, after two invocations at least for
\* "Day", and the store that held entities of both classes is empty.
C22_Witness ==
    /\ IsDestroyChain
    /\ RefreshChainOver
    /\ Len(history) >= 3
    /\ history[1].cls = "Day" /\ history[1].cursor > 0
    /\ \E i \in 1..Len(history) :
          history[i].cls = "Multi" /\ history[i].cursor > 0
    /\ entities = {}


-----------------------------------------------------------------------------
(* Calls of figure_out_real_accounts that share people_caches, as those of  *)
(* one run of yield_people_issue_to_update do.  ret holds the cache, the    *)
(* people the last call returned and, for each address, how often a call    *)
(* was given it and how often its issues were queried.                      *)

\* The calls of a run that are followed.
MaxCalls == 3

\* The addresses given to the calls.
Candidates == {Owner, Other, MailingList, Alias}

AccountsInit ==
    /\ MergeIdle
    /\ QuarterIdle
    /\ BoardIdle
    /\ ChainIdle
    /\ MultiIdle
    /\ ClockIdle
    /\ issue_db = SmallIssues
    /\ message_db = <<>>
    /\ runs = [r \in Invocations |-> IdleRun]
    /\ args = <<>>
    /\ ret = [calls |-> 0, people |-> {}, caches |-> NewCaches,
              given |-> [a \in Candidates |-> 0],
              looked_up |-> [a \in Candidates |-> 0]]

\* "people_caches['real'].add(issue_owner)" for the issue issue_id.
AddOwner(issue_id) ==
    /\ issue_db[issue_id].owner \notin ret.caches.real
    /\ ret' = [ret EXCEPT !.caches.real = @ \cup {issue_db[issue_id].owner}]
    /\ UNCHANGED <<mergeVars, quarterVars, boardVars, dailyVars, args,
                   chainVars, multiVars, utcnow, modified_db>>

\* figure_out_real_accounts(people_involved, people_caches).
CallFigureOut(people_involved) ==
    /\ ret.calls < MaxCalls
    /\ args' = people_involved
    /\ LET out == figure_out_real_accounts(people_involved, ret.caches)
       IN  ret' = [calls |-> ret.calls + 1,
                   people |-> out.people,
                   caches |-> out.caches,
                   given |-> [a \in Candidates |->
                                 ret.given[a]
                                   + (IF a \in people_involved THEN 1 ELSE 0)],
                   looked_up |-> [a \in Candidates |->
                                     ret.looked_up[a]
                                       + (IF a \in out.looked_up
                                          THEN 1 ELSE 0)]]
    /\ UNCHANGED <<mergeVars, quarterVars, boardVars, dailyVars, chainVars,
                   multiVars, utcnow, modified_db>>

AccountsNext ==
    \/ \E issue_id \in DOMAIN issue_db : AddOwner(issue_id)
    \/ \E people_involved \in SUBSET Candidates :
           CallFigureOut(people_involved)

SpecAccounts == AccountsInit /\ [][AccountsNext]_vars

\* C23: over the calls of figure_out_real_accounts that share a cache, the
\* issues of an address are queried once at most; an address is in one of
\* "real" and "fake" at most, both sets only grow, an address that was
\* looked up is in one of them, and a call changes nothing in the store.
C23_LookedUpOnce ==
    /\ [](\A a \in Candidates :
             /\ ret.looked_up[a] <= 1
             /\ ret.looked_up[a] = 1 =>
                    a \in ret.caches.real \cup ret.caches.fake
             /\ ~(a \in ret.caches.real /\ a \in ret.caches.fake))
    /\ [][/\ ret.caches.real \subseteq ret'.caches.real
          /\ ret.caches.fake \subseteq ret'.caches.fake
          /\ UNCHANGED <<issue_db, message_db, stats, entities, multi_db,
                         account_db>>]_vars

\* After the last call: m@x, given to two calls at least, was looked up
\* once and is in "fake"; b@x likewise and is in "real"; o@x, put in "real"
\* as the owner of the issue, was given to a call and never looked up.
C23_Witness ==
    /\ ret.calls = MaxCalls
    /\ ret.given[MailingList] >= 2 /\ ret.looked_up[MailingList] = 1
    /\ MailingList \in ret.caches.fake
    /\ ret.given[Other] >= 2 /\ ret.looked_up[Other] = 1
    /\ Other \in ret.caches.real
    /\ ret.given[Owner] >= 1 /\ ret.looked_up[Owner] = 0


-----------------------------------------------------------------------------
(* The end of an invocation that is out of time.                           *)

\* The keys of the AccountStatsDay entities that the packets of the day
\* named by a task are merged into.
KeysOfDay(task) ==
    LET packets == yield_people_issue_to_update(DayOfJanuary(strptime(task)))
    IN  {<<AccountKey(packets[n].user), packets[n].day>> :
             n \in 1..Len(packets)}

\* The invocation answered by history[i] ended before the end of its work:
\* update_daily_stats with an entity of the day not stored, the two others
\* at the end of their time, with status 200 and a cursor.
EndedEarly(i) ==
    IF IsDayTask(history[i].task)
    THEN strptime(history[i].task).ok
           /\ ~(KeysOfDay(history[i].task) \subseteq history[i].stored)
    ELSE history[i].task \in {TaskRolling, TaskMonthly}
           /\ history[i].status = 200
           /\ history[i].cursor # 0

\* C24: an invocation of update_daily_stats, update_rolling_stats or
\* update_monthly_stats that ends before the end of its work, its time
\* being over, answers with status 200 and a cursor, and the request added
\* to the queue names the same task first and carries that cursor.
C24_OutOfTimeReturnsCursor ==
    \A i \in 1..Len(history) :
        EndedEarly(i) =>
            /\ history[i].status = 200
            /\ history[i].cursor # 0
            /\ Len(history[i].successor) = 1
            /\ Head(json_loads(history[i].successor[1].tasks))
                   = history[i].task
            /\ Cursor(history[i].successor[1].cursor) = history[i].cursor


-----------------------------------------------------------------------------
(* The pages of one invocation of update_rolling_stats.                    *)

\* C25: in an invocation of update_rolling_stats every page starts where
\* the page before it ended: the accounts handled so far are as many as
\* the cursor has moved from the cursor of the call, so that no account is
\* handled twice and the cursor returned is just past the last of them.
C25_RollingPagesFollow ==
    (job.kind = "30" /\ job.pc \in {"fetch", "flush", "wait", "done"}
         /\ job.cursor # Unbound /\ job.accounts > 0) =>
        /\ job.accounts <= Len(AccountKeys)
        /\ job.cursor = job.start_cursor + job.accounts


-----------------------------------------------------------------------------
(* A packet for an entity that is in an asynchronous put.                  *)

\* C26: when an invocation of update_daily_stats has returned 200, the
\* AccountStatsDay of every packet of its day is stored and holds the issue
\* of the packet, also when an earlier packet of the invocation for the
\* same account and day was handed to put_multi_async before.
C26_NoEntryLostAfterPut ==
    (runs[1].pc = "done" /\ runs[1].result = 200) =>
        LET packets == yield_people_issue_to_update(runs[1].day)
        IN  \A n \in 1..Len(packets) :
                LET key == <<AccountKey(packets[n].user), packets[n].day>>
                IN  /\ key \in DOMAIN stats
                    /\ \E i \in 1..Len(stats[key].issues) :
                           stats[key].issues[i] = packets[n].issue_id


-----------------------------------------------------------------------------
(* The end of the scan of the messages.                                    *)

\* Messages of the first two issues of SmallIssues, on any days that
\* never go back: message i is sent by a@x to o@x in second i of its day.
ScanMessageLists ==
    UNION {{[i \in 1..n |->
                [issue |-> of[i], date |-> [day |-> days[i], sec |-> i],
                 sender |-> Reviewer, recipients |-> {Owner}, text |-> ""]] :
               <<of, days>> \in [1..n -> 1..2] \X SendingDays(n)} :
           n \in 1..(MaxMessages + 1)}

ScanInit ==
    /\ MergeIdle
    /\ QuarterIdle
    /\ BoardIdle
    /\ LaterIdle
    /\ issue_db = SmallIssues
    /\ message_db \in ScanMessageLists
    /\ runs = [r \in Invocations |-> IdleRun]

\* The generator is created for any day and run to its end.
ScanNext == \E day \in Days : Begin(1, day)

SpecScan == ScanInit /\ [][ScanNext]_vars

\* The generator of the invocation, at its end.
Scanned == ScanMessages(runs[1].day, 1, NewGenerator)

\* The messages the query of the scan returns: those of the day or later.
Queried(day_to_process) ==
    {i \in 1..Len(message_db) :
        ~Before(message_db[i].date, Midnight(day_to_process))}

\* The issue has a message dated on the day.
HasMessageOn(issue_id, day_to_process) ==
    \E i \in 1..Len(message_db) :
        /\ message_db[i].issue = issue_id
        /\ message_db[i].date.day = day_to_process

\* The least of a set of positions, 0 for none.
First(positions) ==
    IF positions = {} THEN 0
    ELSE CHOOSE i \in positions : \A j \in positions : i <= j

\* The first message dated after the day.
FirstAfter(day_to_process) ==
    First({i \in Queried(day_to_process) :
              message_db[i].date.day > day_to_process})

\* The first message dated after the day of an issue without a message on
\* the day.
FirstNewAfter(day_to_process) ==
    First({i \in Queried(day_to_process) :
              /\ message_db[i].date.day > day_to_process
              /\ ~HasMessageOn(message_db[i].issue, day_to_process)})

\* The body of the scan runs once for each issue with a message on the
\* day, and for no other.
ScansIssuesOfDay ==
    /\ \A i, j \in 1..Len(Scanned.processed) :
           Scanned.processed[i] = Scanned.processed[j] => i = j
    /\ \A issue_id \in DOMAIN issue_db :
           InList(Scanned.processed, issue_id)
               <=> HasMessageOn(issue_id, runs[1].day)

\* C27 as stated: the scan of an invocation ends at the first message dated
\* after its day, and handles once each issue with a message on the day.
C27_ScanStopsAtNextDay ==
    runs[1].pc # "idle" =>
        /\ Scanned.stop = FirstAfter(runs[1].day)
        /\ ScansIssuesOfDay

\* C27: the scan of an invocation ends at the first message dated after its
\* day whose issue it has not handled, the messages after the day of the
\* issues handled being passed and counted; it handles once each issue
\* with a message on the day, and no other.
C27_ScanStopsAtNextDayOfNewIssue ==
    runs[1].pc # "idle" =>
        /\ Scanned.stop = FirstNewAfter(runs[1].day)
        /\ Scanned.messages_looked_up =
               Cardinality({i \in Queried(runs[1].day) :
                               Scanned.stop = 0 \/ i < Scanned.stop})
        /\ ScansIssuesOfDay

\* An invocation for a day with a message of an issue that has a later
\* message too: the scan passes the later message and ends at the message
\* of the other issue after it.
C27_Witness ==
    /\ runs[1].pc = "loop"
    /\ Scanned.processed # <<>>
    /\ FirstAfter(runs[1].day) # 0
    /\ Scanned.stop > FirstAfter(runs[1].day)
    /\ Scanned.messages_looked_up > 1


-----------------------------------------------------------------------------
(* The writes in flight.  task_refresh_all_stats_score deletes a store of  *)
(* BacklogSize AccountStatsDay entities within its time; the datastore    *)
(* does the deletes in the order they were given.                          *)

BacklogInit ==
    /\ MergeIdle
    /\ QuarterIdle
    /\ DailyIdle
    /\ LaterIdle
    /\ limit = 0
    /\ data = NotCalled
    /\ view = [status |-> 0, tops |-> <<>>, shame |-> <<>>]
    /\ entities = {RefreshEntity("Day", n) : n \in 1..BacklogSize}

BacklogNext ==
    \/ QueueUnused /\ job = IdleJob /\ TriggerRefresh("destroy")
    \/ \E i \in 1..Len(queue) : RefreshBegin(i)
    \/ \E more \in BOOLEAN : RefreshPage(more, FALSE)
    \/ RefreshFlush
    \/ RefreshFutureDone(1)
    \/ RefreshWaitAll

SpecBacklog == BacklogInit /\ [][BacklogNext]_vars

\* len(futures) of update_rolling_stats, update_monthly_stats and
\* task_refresh_all_stats_score: one future for each entity of a put or a
\* delete that is not done.
InFlight ==
    CountFutures([i \in 1..Len(job.futures) |->
                      job.futures[i].list \o job.futures[i].keys])

\* C28: the writes an invocation has handed to the datastore and that are
\* not done are never more than the limit at which update_daily_stats
\* waits, max_futures, and the chunk it may add before it waits.
C28_FuturesCapped ==
    /\ \A r \in Invocations :
           CountFutures(runs[r].futures) <= max_futures + chunk_size
    /\ InFlight <= max_futures + chunk_size


-----------------------------------------------------------------------------
(* The calls of process_issue the generator makes, over the messages of    *)
(* issue 1 of SmallIssues.  Every address of the stores has one "@".       *)

CallsInit ==
    /\ MergeIdle
    /\ QuarterIdle
    /\ BoardIdle
    /\ LaterIdle
    /\ issue_db = SmallIssues
    /\ \E posts \in Threads : \E days \in SendingDays(Len(posts)) :
           message_db = SmallMessages(posts, days)
    /\ runs = [r \in Invocations |-> IdleRun]

SpecCalls == CallsInit /\ [][ScanNext]_vars

\* The messages of a call that its user sent.
SentByUser(call) ==
    {i \in 1..Len(call.messages) : call.messages[i].sender = call.user}

\* C29: in every call of process_issue that the generator makes, the index
\* search_relevant_first_email_for_user returned is None or an index of
\* messages that is not after the first message of the user, and no assert
\* of process_issue fails: a call that gives IGNORED has counted no lgtm.
C29_NoAssertionFails ==
    runs[1].pc # "idle" =>
        \A n \in 1..Len(Scanned.calls) :
            LET call == Scanned.calls[n]
            IN  /\ \/ call.message_index = NoIndex
                   \/ /\ call.message_index \in 1..Len(call.messages)
                      /\ \A i \in SentByUser(call) : call.message_index <= i
                /\ call.triple.review_type # AssertionError
                /\ call.triple.review_type = IGNORED => call.triple.lgtms = 0

\* A run with a call for a user who was sent a message and has sent none:
\* the call has an index, reaches "assert not lgtms" and gives IGNORED.
C29_Witness ==
    /\ runs[1].pc = "loop"
    /\ \E n \in 1..Len(Scanned.calls) :
           /\ Scanned.calls[n].message_index \in
                  1..Len(Scanned.calls[n].messages)
           /\ SentByUser(Scanned.calls[n]) = {}
           /\ Scanned.calls[n].triple.review_type = IGNORED


-----------------------------------------------------------------------------
(* The end of the chain of the daily trigger.  The queue delivers every    *)
(* request it holds, again after an error; the datastore does every write  *)
(* it was given and fails MaxErrors times at most.                         *)

LiveNext ==
    \/ QueueUnused /\ cron_update_yesterday_stats
    \/ \E i \in 1..Len(queue) : Dispatch(i)
    \/ CallDaily
    \/ HandlePacket(1)
    \/ PutLastItems(1)
    \/ \E i \in 1..Len(runs[1].futures) : PutDone(1, i)
    \/ WaitAll(1)
    \/ MayFail /\ Timeout(1)
    \/ CallRolling
    \/ \E more \in BOOLEAN : RollingPass(more)
    \/ RollingFlush
    \/ CallMonthly
    \/ \E more \in BOOLEAN : MonthlyPage(more)
    \/ \E i \in 1..Len(job.futures) : JobFutureDone(i)
    \/ JobWaitAll
    \/ MayFail /\ JobTimeout
    \/ Respond

\* What every step of the chain changes: the queue, the request handled,
\* the responses, the run of update_daily_stats, and the position, the
\* passes, the cursor and the number of futures of the job.
liveVars ==
    <<queue, handling, history, runs, job.pc, job.passes, job.cursor,
      Len(job.futures)>>

\* A request of the queue can be delivered: no request is being handled,
\* and one has tries left (the guard of Dispatch).
CanDispatch ==
    /\ handling.pc = "idle"
    /\ \E i \in 1..Len(queue) : queue[i].tries < MaxTries

\* update_daily_stats can be entered (the guards of CallDaily and Begin).
CanCallDaily == handling.pc = "daily" /\ runs[1].pc = "idle"

\* The loop of update_rolling_stats can fetch (the guard of RollingPass).
CanRollingPass == job.pc = "fetch" /\ job.kind = "30"

\* The loop of update_monthly_stats can fetch (the guard of MonthlyPage).
CanMonthlyPage == job.pc = "fetch" /\ job.kind = "monthly"

\* The queue delivers, the task runs on, and the datastore does its writes:
\* weak fairness of each step.  For the four steps whose guard is written
\* out above, weak fairness is spelled out as "infinitely often not able,
\* or infinitely often taken".
LiveFairness ==
    /\ WF_liveVars(QueueUnused /\ cron_update_yesterday_stats)
    /\ ([]<>(~CanDispatch)
            \/ []<><<\E i \in 1..Len(queue) : Dispatch(i)>>_liveVars)
    /\ ([]<>(~CanCallDaily) \/ []<><<CallDaily>>_liveVars)
    /\ WF_liveVars(HandlePacket(1))
    /\ WF_liveVars(PutLastItems(1))
    /\ WF_liveVars(\E i \in 1..Len(runs[1].futures) : PutDone(1, i))
    /\ WF_liveVars(WaitAll(1))
    /\ WF_liveVars(CallRolling)
    /\ ([]<>(~CanRollingPass)
            \/ []<><<\E more \in BOOLEAN : RollingPass(more)>>_liveVars)
    /\ WF_liveVars(RollingFlush)
    /\ WF_liveVars(CallMonthly)
    /\ ([]<>(~CanMonthlyPage)
            \/ []<><<\E more \in BOOLEAN : MonthlyPage(more)>>_liveVars)
    /\ WF_liveVars(\E i \in 1..Len(job.futures) : JobFutureDone(i))
    /\ WF_liveVars(JobWaitAll)
    /\ WF_liveVars(Respond)

SpecLive == ChainInit /\ [][LiveNext]_vars /\ LiveFairness

\* The position the cursor parameter of a request stands for.
CursorSent(request) ==
    IF request.cursor = <<>> THEN 0 ELSE ParseInt(request.cursor)

\* A response of update_rolling_stats or update_monthly_stats with status
\* 200 and a cursor has moved the cursor of its request.
CursorAdvanced(response) ==
    (response.task \in {TaskRolling, TaskMonthly}
         /\ response.status = 200 /\ response.cursor # 0)
        => response.cursor > CursorSent(response.request)

\* Nothing is queued or running, and each task of the daily trigger has
\* returned 200 with no cursor.
ChainOver ==
    /\ queue = <<>>
    /\ handling = NotHandling
    /\ job = IdleJob
    /\ \E i, j, k \in 1..Len(history) :
           /\ i < j /\ j < k
           /\ IsDayTask(history[i].task) /\ Finished(history[i])
           /\ history[j].task = TaskRolling /\ Finished(history[j])
           /\ history[k].task = TaskMonthly /\ Finished(history[k])
           /\ history[k].successor = <<>>

\* C30: with a queue that delivers every request, again after an error, and
\* a datastore that fails MaxErrors times at most, every response of the
\* rolling and of the monthly task with a cursor has moved the cursor of
\* its request, and the chain of the daily trigger comes to its end: each
\* of its tasks has returned 200 with no cursor and the queue stays empty.
C30_ChainEnds ==
    /\ [](\A i \in 1..Len(history) : CursorAdvanced(history[i]))
    /\ <>[]ChainOver

\* The chain is over after the rolling task returned a cursor and was
\* called again from it, and after a task failed and was delivered again.
C30_Witness ==
    /\ ChainOver
    /\ \E i \in 1..Len(history) :
           /\ history[i].task = TaskRolling
           /\ history[i].status = 200
           /\ history[i].cursor # 0
    /\ \E i \in 1..Len(history) : history[i].status = 500

=============================================================================
